---- MODULE Spec2Model ----
(***************************************************************************)
(* PrepLyt: the room roster, the rating flow and the realtime room view.   *)
(*                                                                         *)
(* The store holds one room row (status, participants), the profiles'      *)
(* points and the feedback rows.  Every client is a browser session of one *)
(* profile; it is on the dashboard or on the room view (MeetingRoom).      *)
(* Each handler is split at its awaits: one action for the synchronous     *)
(* part up to the first store call, then one action per store call, which  *)
(* applies the call to the store and runs the handler up to its next       *)
(* await.  The store is the row store the handlers are written against:    *)
(* it applies every statement as issued and answers without error, and     *)
(* every UPDATE of the room row is published to the channels subscribed    *)
(* then.  The access policies of the hosted store are set by migrations of *)
(* which the repository holds a part only (the policies it holds name a    *)
(* role 'admin' that the enum it holds does not have, and its status CHECK *)
(* rejects the 'completed' the handlers write); RoomUpdateApplies states   *)
(* the store's decision on a room UPDATE as the specification has it.      *)
(***************************************************************************)
EXTENDS Integers, Sequences, FiniteSets, TLC

VARIABLES
  dbStatus,        \* rooms.status of the room
  dbParticipants,  \* rooms.participants of the room (JSON array)
  dbPoints,        \* profiles.points, by profile id
  dbFeedback,      \* the feedback rows, in insertion order
  view,            \* per client: the route shown, "dashboard" or "room"
  room,            \* per client: MeetingRoom's room state (NoRoom = null)
  participants,    \* per client: MeetingRoom's participants state
  isLoadingRoom,   \* per client: MeetingRoom's isLoadingRoom state
  feedbackFeed,    \* per client: MeetingRoom's feedbackFeed state
  toast,           \* per client: the last notification raised
  fetchPc,         \* per client: where its fetchRoom call stands
  joinPc,          \* per client: where its admission handler stands
  joinRead,        \* per client: currentParticipants, the list its last admission read
  ratePc,          \* per client: where its handleSubmitRating call stands
  rateArgs,        \* per client: ratingTarget, rating and comment of that call
  rateRead,        \* per client: the points that call read
  chan,            \* per client: its room channel, "none", "joined", "leaving"
  queue,           \* per client: update events published to its channel, not yet handled
  nOps,            \* number of handler invocations started so far
  toLive,          \* number of times rooms.status changed from waiting to live
  fault,           \* per client and handler: the store call of its last run that failed
  createModal,     \* CreateSessionModal: domain, topic, meetingLink, error, onSubmit calls
  ratingModal,     \* RatingModal: rating, comment, isSubmitting, onSubmit calls
  linkOpens,       \* per client: number of window.open calls of the meeting link
  fetchData,       \* per client: the row its fetchRoom select returned, not yet delivered
  dbRooms,         \* the rows inserted into rooms by the dashboards, in insertion order
  showCreateModal, \* per client: Dashboard's showCreateModal state
  activeRooms,     \* per client: Dashboard's activeRooms state (ids)
  roomsChanges,    \* per client: rooms change events of the dashboard channel, not yet handled
  listFetches,     \* per client: results of fetchActiveRooms calls, not yet delivered
  createCall,      \* per client: the handleCreateSession call in flight and its arguments
  joinDomain,      \* per client: the domain of its handleJoinDomain call in flight
  joinTarget       \* per client: the waiting room its domain join read (0 = none)

vars == <<dbStatus, dbParticipants, dbPoints, dbFeedback, view, room,
          participants, isLoadingRoom, feedbackFeed, toast, fetchPc, joinPc,
          joinRead, ratePc, rateArgs, rateRead, chan, queue, nOps, toLive,
          fault, createModal, ratingModal, linkOpens, fetchData, dbRooms,
          showCreateModal, activeRooms, roomsChanges, listFetches, joinTarget,
          createCall, joinDomain>>

storeVars  == <<dbStatus, dbParticipants, dbPoints, dbFeedback, toLive>>
rateVars   == <<ratePc, rateArgs, rateRead>>
joinVars   == <<joinPc, joinRead>>
localVars  == <<room, participants, isLoadingRoom, feedbackFeed>>
modalVars  == <<createModal, ratingModal>>
dashVars   == <<fetchData, dbRooms, showCreateModal, activeRooms, roomsChanges,
                listFetches, joinTarget, createCall, joinDomain>>

----------------------------------------------------------------------------
(* Bounds of the model *)

\* user actions (handler invocations, navigations) in one behaviour of Spec
MaxOps == 3
\* user actions in one behaviour of SeqSpec
MaxSeqOps == 4
\* user actions in one behaviour of ScenarioSpec
MaxScenarioOps == 5
\* rating submissions in one behaviour of RateSpec
MaxRatings == 2
\* status updates and navigations in one behaviour of EventSpec
MaxEventOps == 4

\* handler invocations started in the runs with failing store calls
MaxFaultOps == 3
\* handler invocations started in the runs with two sessions of one profile
MaxJoinOps == 3
\* the longest meeting link typed into the create-session form, in parts
MaxLinkLen == 2
\* onSubmit calls of the rating modal in one behaviour of FormSpec
MaxSubmits == 2
\* onSubmit calls of the create-session modal in one behaviour of FormSpec
MaxCreates == 1
MaxFetches == 2
MaxViewOps == 4

----------------------------------------------------------------------------
(* Profiles and clients *)

Users == {"a", "x", "y", "e"}

Role == [a |-> "admin", x |-> "student", y |-> "student", e |-> "expert"]

\* the browser sessions; c5 is a second session of the profile of c2
Clients == {"c1", "c2", "c3", "c4", "c5"}

\* the profile each client is signed in with
userOf == [c1 |-> "a", c2 |-> "x", c3 |-> "y", c4 |-> "e", c5 |-> "x"]

\* profiles.points of a profile created by the dashboard
InitialPoints == 50

\* the stars of the rating modal
Ratings == 1..5

Comments == {"", "Good structure"}

NoRoom == [status |-> "null", participants |-> <<>>]

NoArgs == [target |-> "none", rating |-> 0, comment |-> ""]

\* no admission of the client has read the stored list yet
NoRead == <<[id |-> "none", name |-> "none", role |-> "none"]>>

\* a failed store call of a handler: which call, and how it failed
Failure(call, how) == [call |-> call, how |-> how]

NoFailure == Failure("none", "none")

\* no store call of the client's last run of a handler has failed
NoFault ==
  [fetch |-> NoFailure, join |-> NoFailure, rate |-> NoFailure,
   close |-> NoFailure, create |-> NoFailure]

\* no handleCreateSession call of the client is in flight
NoCreate == [pc |-> "idle", domain |-> "", topic |-> "", meeting_link |-> <<>>]

\* the modals as they open: empty fields, no star selected
EmptyCreateModal ==
  [domain |-> "", topic |-> "", meetingLink |-> <<>>, error |-> "", calls |-> 0]

EmptyRatingModal ==
  [rating |-> 0, comment |-> "", isSubmitting |-> FALSE, inFlight |-> 0,
   calls |-> 0]

\* the roster entry written for a profile: a snapshot of id, name and role
Entry(u) == [id |-> u, name |-> u, role |-> Role[u]]

----------------------------------------------------------------------------
(* Helpers of the handlers *)

\* the membership check on a field the entries do not carry the id in
HasIdByRole(list, u) == \E i \in 1..Len(list) : list[i].role = u

\* participants.some(p => p.id === id) / participants.find(p => p.id === id)
HasId(list, u) == \E i \in 1..Len(list) : list[i].id = u

\* the write that sends the list read, without the new entry
UpdatedParticipantsStale(list, u) == list

\* [...currentParticipants, newParticipant]
UpdatedParticipants(list, u) == Append(list, Entry(u))

\* the comparison with a status no room has
NeedsLiveNever(status) == status = "pending"

\* fetchRoom: data.status === "waiting"
NeedsLive(status) == status = "waiting"

\* the room handler: updatedRoom.status === "completed"
IsSessionClose(status) == status = "completed"

\* the increment without the factor
NewPointsUnscaled(points, rating) == points + rating

\* studentData.points + rating * 10
NewPoints(points, rating) == points + rating * 10

\* a rating button offered to every role
canRateAnyRole(u) == Role[u] \in {"expert", "admin", "student"}

\* canRate = isExpert || isAdmin
canRate(u) == Role[u] \in {"expert", "admin"}

\* the store's decision on an UPDATE of the room row issued by a profile:
\* it applies it (a student's view load sets the room live and a student's
\* admission writes the roster)
RoomUpdateApplies(u) == u \in Users

\* the values of rooms.status: those of the schema's CHECK and the one the
\* handlers write and compare with
Statuses == {"waiting", "live", "ended", "completed"}

\* the row the store holds for the room
RoomRow(st, ps) == [status |-> st, participants |-> ps]

\* the statuses the dashboard's fetchActiveRooms selects
ActiveStatuses == {"waiting", "live"}

\* the rooms fetchActiveRooms returns
ActiveRooms == IF dbStatus \in ActiveStatuses THEN {"R"} ELSE {}

\* the list the channel callback takes from an event:
\* updatedRoom.participants || []
PayloadParticipants(updatedRoom) ==
  IF "participants" \in DOMAIN updatedRoom THEN updatedRoom.participants
  ELSE <<>>

\* an UPDATE of the room row is published to every channel joined right now
Publish(q, row) ==
  [c \in Clients |-> IF chan[c] = "joined" THEN Append(q[c], row) ELSE q[c]]

----------------------------------------------------------------------------
Init ==
  /\ dbStatus = "waiting"
  /\ dbParticipants = <<>>
  /\ dbPoints = [u \in Users |-> InitialPoints]
  /\ dbFeedback = <<>>
  /\ view = [c \in Clients |-> "dashboard"]
  /\ room = [c \in Clients |-> NoRoom]
  /\ participants = [c \in Clients |-> <<>>]
  /\ isLoadingRoom = [c \in Clients |-> TRUE]
  /\ feedbackFeed = [c \in Clients |-> <<>>]
  /\ toast = [c \in Clients |-> "none"]
  /\ fetchPc = [c \in Clients |-> "idle"]
  /\ joinPc = [c \in Clients |-> "idle"]
  /\ joinRead = [c \in Clients |-> NoRead]
  /\ ratePc = [c \in Clients |-> "idle"]
  /\ rateArgs = [c \in Clients |-> NoArgs]
  /\ rateRead = [c \in Clients |-> 0]
  /\ chan = [c \in Clients |-> "none"]
  /\ queue = [c \in Clients |-> <<>>]
  /\ nOps = 0
  /\ toLive = 0
  /\ fault = [c \in Clients |-> NoFault]
  /\ createModal = EmptyCreateModal
  /\ ratingModal = EmptyRatingModal
  /\ linkOpens = [c \in Clients |-> 0]
  /\ fetchData = [c \in Clients |-> NoRoom]
  /\ dbRooms = <<>>
  /\ showCreateModal = [c \in Clients |-> FALSE]
  /\ activeRooms = [c \in Clients |-> {}]
  /\ roomsChanges = [c \in Clients |-> 0]
  /\ listFetches = [c \in Clients |-> <<>>]
  /\ joinTarget = [c \in Clients |-> 0]
  /\ createCall = [c \in Clients |-> NoCreate]
  /\ joinDomain = [c \in Clients |-> ""]

----------------------------------------------------------------------------
(* The room view: mount, unmount, fetchRoom, the room channel *)

ToastCheckedIn   == "Checked in!"
ToastRated       == "Rating submitted"
ToastClosed      == "Session Ended: The admin has closed this session."
ToastEnded       == "Session Ended: Session moved to history."

\* the state a MeetingRoom component holds while its view is on screen
Mounted(c) == view[c] = "room"

\* the room view has rendered its page (not the loader, not null)
Rendered(c) == Mounted(c) /\ ~isLoadingRoom[c] /\ room[c] # NoRoom

\* navigate(`/room/${roomId}`): MeetingRoom mounts with fresh state, its
\* effects start fetchRoom and subscribe the room channel
MountRoom(c) ==
  /\ view' = [view EXCEPT ![c] = "room"]
  /\ room' = [room EXCEPT ![c] = NoRoom]
  /\ participants' = [participants EXCEPT ![c] = <<>>]
  /\ isLoadingRoom' = [isLoadingRoom EXCEPT ![c] = TRUE]
  /\ fetchPc' = [fetchPc EXCEPT ![c] = "read"]
  /\ chan' = [chan EXCEPT ![c] = "joined"]

\* navigate("/dashboard") with an effect that returns no cleanup
UnmountRoomKeepsChannel(c) ==
  /\ view' = [view EXCEPT ![c] = "dashboard"]
  /\ room' = [room EXCEPT ![c] = NoRoom]
  /\ participants' = [participants EXCEPT ![c] = <<>>]
  /\ isLoadingRoom' = [isLoadingRoom EXCEPT ![c] = TRUE]
  /\ chan' = chan

\* navigate("/dashboard") from the room view: the component is destroyed
\* and the effect's cleanup asks for the channel's removal, unawaited
UnmountRoom(c) ==
  /\ view' = [view EXCEPT ![c] = "dashboard"]
  /\ room' = [room EXCEPT ![c] = NoRoom]
  /\ participants' = [participants EXCEPT ![c] = <<>>]
  /\ isLoadingRoom' = [isLoadingRoom EXCEPT ![c] = TRUE]
  /\ chan' = [chan EXCEPT ![c] = IF chan[c] = "joined" THEN "leaving" ELSE chan[c]]

\* the route /room/:roomId opened directly (not while the dashboard's join
\* is in flight, which navigates there itself)
OpenRoomRoute(c) ==
  /\ view[c] = "dashboard"
  /\ fetchPc[c] = "idle" /\ joinPc[c] = "idle" /\ chan[c] = "none"
  /\ MountRoom(c)
  /\ queue' = [queue EXCEPT ![c] = <<>>]
  /\ nOps' = nOps + 1
  /\ UNCHANGED <<storeVars, feedbackFeed, toast, joinVars, rateVars>>
  /\ fault' = [fault EXCEPT ![c].fetch = NoFailure]
  /\ UNCHANGED modalVars
  /\ UNCHANGED <<linkOpens, dashVars>>

\* the back button of the room view
LeaveRoom(c) ==
  /\ Mounted(c)
  /\ UnmountRoom(c)
  /\ nOps' = nOps + 1
  /\ UNCHANGED <<storeVars, feedbackFeed, toast, fetchPc, joinVars, rateVars,
                 queue>>
  /\ UNCHANGED <<fault, modalVars>>
  /\ UNCHANGED <<linkOpens, dashVars>>

\* fetchRoom, the select: setRoom, setParticipants, then the update to live
\* is issued when the row read is waiting
FetchRead(c) ==
  /\ fetchPc[c] = "read"
  /\ LET data == RoomRow(dbStatus, dbParticipants) IN
     /\ room' = IF Mounted(c) THEN [room EXCEPT ![c] = data] ELSE room
     /\ participants' = IF Mounted(c)
                        THEN [participants EXCEPT ![c] = data.participants]
                        ELSE participants
     /\ IF NeedsLive(data.status)
        THEN /\ fetchPc' = [fetchPc EXCEPT ![c] = "write"]
             /\ UNCHANGED isLoadingRoom
        ELSE /\ fetchPc' = [fetchPc EXCEPT ![c] = "idle"]
             /\ isLoadingRoom' = IF Mounted(c)
                                 THEN [isLoadingRoom EXCEPT ![c] = FALSE]
                                 ELSE isLoadingRoom
  /\ UNCHANGED <<storeVars, view, feedbackFeed, toast, joinVars, rateVars,
                 chan, queue, nOps>>
  /\ UNCHANGED <<fault, modalVars>>
  /\ UNCHANGED <<linkOpens, dashVars>>

\* fetchRoom, the select as the store runs it: the row read is on its way
\* back to the view
FetchSelect(c) ==
  /\ fetchPc[c] = "read"
  /\ fetchData' = [fetchData EXCEPT ![c] = RoomRow(dbStatus, dbParticipants)]
  /\ fetchPc' = [fetchPc EXCEPT ![c] = "response"]
  /\ UNCHANGED <<storeVars, view, localVars, toast, joinVars, rateVars, chan,
                 queue, nOps, fault, modalVars, linkOpens, dbRooms,
                 showCreateModal, activeRooms, roomsChanges, listFetches,
                 joinTarget, createCall, joinDomain>>

\* fetchRoom resumes with the row the select returned: setRoom,
\* setParticipants, then the update to live is issued when that row is waiting
FetchResponse(c) ==
  /\ fetchPc[c] = "response"
  /\ LET data == fetchData[c] IN
     /\ room' = IF Mounted(c) THEN [room EXCEPT ![c] = data] ELSE room
     /\ participants' = IF Mounted(c)
                        THEN [participants EXCEPT ![c] = data.participants]
                        ELSE participants
     /\ IF NeedsLive(data.status)
        THEN /\ fetchPc' = [fetchPc EXCEPT ![c] = "write"]
             /\ UNCHANGED isLoadingRoom
        ELSE /\ fetchPc' = [fetchPc EXCEPT ![c] = "idle"]
             /\ isLoadingRoom' = IF Mounted(c)
                                 THEN [isLoadingRoom EXCEPT ![c] = FALSE]
                                 ELSE isLoadingRoom
  /\ fetchData' = [fetchData EXCEPT ![c] = NoRoom]
  /\ UNCHANGED <<storeVars, view, feedbackFeed, toast, joinVars, rateVars,
                 chan, queue, nOps, fault, modalVars, linkOpens, dbRooms,
                 showCreateModal, activeRooms, roomsChanges, listFetches,
                 joinTarget, createCall, joinDomain>>

\* an update that writes back the whole row fetchRoom read, with status live
FetchWriteWholeRow(c) ==
  /\ fetchPc[c] = "write"
  /\ dbStatus' = "live"
  /\ dbParticipants' = room[c].participants
  /\ toLive' = IF dbStatus = "waiting" THEN toLive + 1 ELSE toLive
  /\ queue' = Publish(queue, RoomRow("live", dbParticipants'))
  /\ fetchPc' = [fetchPc EXCEPT ![c] = "idle"]
  /\ isLoadingRoom' = IF Mounted(c)
                      THEN [isLoadingRoom EXCEPT ![c] = FALSE]
                      ELSE isLoadingRoom
  /\ UNCHANGED <<dbPoints, dbFeedback, view, room, participants,
                 feedbackFeed, toast, joinVars, rateVars, chan, nOps>>
  /\ UNCHANGED <<fault, modalVars>>
  /\ UNCHANGED <<linkOpens, dashVars>>

\* fetchRoom, the update { status: "live" } and the finally block
FetchWrite(c) ==
  /\ fetchPc[c] = "write"
  /\ IF RoomUpdateApplies(userOf[c])
     THEN /\ dbStatus' = "live"
          /\ toLive' = IF dbStatus = "waiting" THEN toLive + 1 ELSE toLive
          /\ queue' = Publish(queue, RoomRow("live", dbParticipants))
     ELSE UNCHANGED <<dbStatus, toLive, queue>>
  /\ fetchPc' = [fetchPc EXCEPT ![c] = "idle"]
  /\ isLoadingRoom' = IF Mounted(c)
                      THEN [isLoadingRoom EXCEPT ![c] = FALSE]
                      ELSE isLoadingRoom
  /\ UNCHANGED <<dbParticipants, dbPoints, dbFeedback, view, room,
                 participants, feedbackFeed, toast, joinVars, rateVars, chan,
                 nOps>>
  /\ UNCHANGED <<fault, modalVars>>
  /\ UNCHANGED <<linkOpens, dashVars>>

\* the callback adding the event's list to the list the view holds
OnRoomUpdateMerging(c) ==
  /\ chan[c] \in {"joined", "leaving"}
  /\ queue[c] # <<>>
  /\ LET updatedRoom == Head(queue[c]) IN
     /\ queue' = [queue EXCEPT ![c] = Tail(queue[c])]
     /\ IF IsSessionClose(updatedRoom.status)
        THEN /\ toast' = [toast EXCEPT ![c] = ToastClosed]
             /\ UnmountRoom(c)
        ELSE /\ room' = IF Mounted(c)
                        THEN [room EXCEPT ![c] = updatedRoom]
                        ELSE room
             /\ participants' =
                  IF Mounted(c)
                  THEN [participants EXCEPT ![c] =
                          participants[c] \o PayloadParticipants(updatedRoom)]
                  ELSE participants
             /\ UNCHANGED <<view, isLoadingRoom, chan, toast>>
  /\ UNCHANGED <<storeVars, feedbackFeed, fetchPc, joinVars, rateVars, nOps>>
  /\ UNCHANGED <<fault, modalVars>>
  /\ UNCHANGED <<linkOpens, dashVars>>

\* the channel's UPDATE callback on the oldest event published to it.  The
\* setters act on a mounted component only; toast and navigate act anyway.
OnRoomUpdate(c) ==
  /\ chan[c] \in {"joined", "leaving"}
  /\ queue[c] # <<>>
  /\ LET updatedRoom == Head(queue[c]) IN
     /\ queue' = [queue EXCEPT ![c] = Tail(queue[c])]
     /\ IF IsSessionClose(updatedRoom.status)
        THEN /\ toast' = [toast EXCEPT ![c] = ToastClosed]
             /\ UnmountRoom(c)
        ELSE /\ room' = IF Mounted(c)
                        THEN [room EXCEPT ![c] = updatedRoom]
                        ELSE room
             /\ participants' =
                  IF Mounted(c)
                  THEN [participants EXCEPT ![c] =
                          PayloadParticipants(updatedRoom)]
                  ELSE participants
             /\ UNCHANGED <<view, isLoadingRoom, chan, toast>>
  /\ UNCHANGED <<storeVars, feedbackFeed, fetchPc, joinVars, rateVars, nOps>>
  /\ UNCHANGED <<fault, modalVars>>
  /\ UNCHANGED <<linkOpens, dashVars>>

\* the removal asked for by the cleanup completes: nothing more is handled
ChannelRemoved(c) ==
  /\ chan[c] = "leaving"
  /\ chan' = [chan EXCEPT ![c] = "none"]
  /\ queue' = [queue EXCEPT ![c] = <<>>]
  /\ UNCHANGED <<storeVars, view, localVars, toast, fetchPc, joinVars,
                 rateVars, nOps>>
  /\ UNCHANGED <<fault, modalVars>>
  /\ UNCHANGED <<linkOpens, dashVars>>

----------------------------------------------------------------------------
(* Admission through the room view: MeetingRoom.handleOpenMeetingLink *)

\* the click: the local already-joined check, then setIsCheckingIn(true)
\* and the fresh select is issued
OpenMeetingLinkStart(c) ==
  /\ Rendered(c)
  /\ joinPc[c] = "idle"
  /\ joinPc' = [joinPc EXCEPT ![c] =
                  IF HasId(participants[c], userOf[c]) THEN "idle" ELSE "mr_read"]
  /\ nOps' = nOps + 1
  /\ UNCHANGED <<storeVars, view, localVars, toast, fetchPc, joinRead,
                 rateVars, chan, queue>>
  /\ fault' = [fault EXCEPT ![c].join = NoFailure]
  /\ UNCHANGED modalVars
  /\ linkOpens' = IF HasId(participants[c], userOf[c])
                  THEN [linkOpens EXCEPT ![c] = @ + 1]
                  ELSE linkOpens
  /\ UNCHANGED dashVars

\* the check made on the list the view holds, without a select
OpenMeetingLinkReadLocal(c) ==
  /\ joinPc[c] = "mr_read"
  /\ LET currentParticipants == participants[c] IN
     /\ joinRead' = [joinRead EXCEPT ![c] = currentParticipants]
     /\ IF ~HasId(currentParticipants, userOf[c])
        THEN /\ joinPc' = [joinPc EXCEPT ![c] = "mr_write"]
             /\ UNCHANGED toast
        ELSE /\ joinPc' = [joinPc EXCEPT ![c] = "idle"]
             /\ toast' = [toast EXCEPT ![c] = ToastCheckedIn]
  /\ UNCHANGED <<storeVars, view, localVars, fetchPc, rateVars, chan, queue,
                 nOps>>
  /\ UNCHANGED <<fault, modalVars>>
  /\ linkOpens' = IF HasId(participants[c], userOf[c])
                  THEN [linkOpens EXCEPT ![c] = @ + 1]
                  ELSE linkOpens
  /\ UNCHANGED dashVars

\* the select of rooms.participants and the check on the list read
OpenMeetingLinkRead(c) ==
  /\ joinPc[c] = "mr_read"
  /\ LET currentParticipants == dbParticipants IN
     /\ joinRead' = [joinRead EXCEPT ![c] = currentParticipants]
     /\ IF ~HasId(currentParticipants, userOf[c])
        THEN /\ joinPc' = [joinPc EXCEPT ![c] = "mr_write"]
             /\ UNCHANGED toast
        ELSE /\ joinPc' = [joinPc EXCEPT ![c] = "idle"]
             /\ toast' = [toast EXCEPT ![c] = ToastCheckedIn]
  /\ UNCHANGED <<storeVars, view, localVars, fetchPc, rateVars, chan, queue,
                 nOps>>
  /\ UNCHANGED <<fault, modalVars>>
  /\ linkOpens' = IF HasId(dbParticipants, userOf[c])
                  THEN [linkOpens EXCEPT ![c] = @ + 1]
                  ELSE linkOpens
  /\ UNCHANGED dashVars

\* the update of rooms.participants with the list read plus the own entry,
\* then window.open and the "Checked in!" notification
OpenMeetingLinkWrite(c) ==
  /\ joinPc[c] = "mr_write"
  /\ IF RoomUpdateApplies(userOf[c])
     THEN /\ dbParticipants' = UpdatedParticipants(joinRead[c], userOf[c])
          /\ queue' = Publish(queue, RoomRow(dbStatus, dbParticipants'))
     ELSE UNCHANGED <<dbParticipants, queue>>
  /\ toast' = [toast EXCEPT ![c] = ToastCheckedIn]
  /\ joinPc' = [joinPc EXCEPT ![c] = "idle"]
  /\ UNCHANGED joinRead
  /\ UNCHANGED <<dbStatus, dbPoints, dbFeedback, toLive, view, localVars,
                 fetchPc, rateVars, chan, nOps>>
  /\ UNCHANGED <<fault, modalVars>>
  /\ linkOpens' = [linkOpens EXCEPT ![c] = @ + 1]
  /\ UNCHANGED dashVars

----------------------------------------------------------------------------
(* Admission through the dashboard: Dashboard.handleJoinRoom *)

\* the click: a student's select is issued; any other role navigates at once
JoinRoomStart(c) ==
  /\ view[c] = "dashboard"
  /\ fetchPc[c] = "idle" /\ joinPc[c] = "idle" /\ chan[c] = "none"
  /\ nOps' = nOps + 1
  /\ IF Role[userOf[c]] = "student"
     THEN /\ joinPc' = [joinPc EXCEPT ![c] = "db_read"]
          /\ UNCHANGED <<view, room, participants, isLoadingRoom, fetchPc,
                         chan, queue>>
     ELSE /\ MountRoom(c)
          /\ queue' = [queue EXCEPT ![c] = <<>>]
          /\ UNCHANGED joinPc
  /\ UNCHANGED <<storeVars, feedbackFeed, toast, joinRead, rateVars>>
  /\ fault' = [fault EXCEPT ![c].join = NoFailure, ![c].fetch = NoFailure]
  /\ UNCHANGED modalVars
  /\ UNCHANGED <<linkOpens, dashVars>>

\* the click in the dashboard that admits every role: the select is issued
\* whatever the role
JoinRoomStartAnyRole(c) ==
  /\ view[c] = "dashboard"
  /\ fetchPc[c] = "idle" /\ joinPc[c] = "idle" /\ chan[c] = "none"
  /\ nOps' = nOps + 1
  /\ joinPc' = [joinPc EXCEPT ![c] = "db_read"]
  /\ fault' = [fault EXCEPT ![c].join = NoFailure, ![c].fetch = NoFailure]
  /\ UNCHANGED <<storeVars, view, localVars, toast, fetchPc, joinRead,
                 rateVars, chan, queue, modalVars>>
  /\ UNCHANGED <<linkOpens, dashVars>>

\* the select of the room row followed by the update without a check
JoinRoomReadNoCheck(c) ==
  /\ joinPc[c] = "db_read"
  /\ LET roomRead == RoomRow(dbStatus, dbParticipants) IN
     /\ joinRead' = [joinRead EXCEPT ![c] = roomRead.participants]
     /\ joinPc' = [joinPc EXCEPT ![c] = "db_write"]
  /\ UNCHANGED <<storeVars, view, localVars, fetchPc, toast, rateVars, chan,
                 queue, nOps>>
  /\ UNCHANGED <<fault, modalVars>>
  /\ UNCHANGED <<linkOpens, dashVars>>

\* the select of the room row and the check on the list read; navigates when
\* the student is already in it
JoinRoomRead(c) ==
  /\ joinPc[c] = "db_read"
  /\ LET roomRead == RoomRow(dbStatus, dbParticipants) IN
     /\ joinRead' = [joinRead EXCEPT ![c] = roomRead.participants]
     /\ IF ~HasId(roomRead.participants, userOf[c])
        THEN /\ joinPc' = [joinPc EXCEPT ![c] = "db_write"]
             /\ UNCHANGED <<view, room, participants, isLoadingRoom, fetchPc,
                            chan, queue>>
        ELSE /\ joinPc' = [joinPc EXCEPT ![c] = "idle"]
             /\ MountRoom(c)
             /\ queue' = [queue EXCEPT ![c] = <<>>]
  /\ UNCHANGED <<storeVars, feedbackFeed, toast, rateVars, nOps>>
  /\ UNCHANGED <<fault, modalVars>>
  /\ UNCHANGED <<linkOpens, dashVars>>

\* the update of rooms.participants, then navigate to the room view
JoinRoomWrite(c) ==
  /\ joinPc[c] = "db_write"
  /\ IF RoomUpdateApplies(userOf[c])
     THEN /\ dbParticipants' = UpdatedParticipants(joinRead[c], userOf[c])
          /\ queue' = [Publish(queue, RoomRow(dbStatus, dbParticipants'))
                         EXCEPT ![c] = <<>>]
     ELSE /\ queue' = [queue EXCEPT ![c] = <<>>]
          /\ UNCHANGED dbParticipants
  /\ joinPc' = [joinPc EXCEPT ![c] = "idle"]
  /\ UNCHANGED joinRead
  /\ MountRoom(c)
  /\ UNCHANGED <<dbStatus, dbPoints, dbFeedback, toLive, feedbackFeed, toast,
                 rateVars, nOps>>
  /\ UNCHANGED <<fault, modalVars>>
  /\ UNCHANGED <<linkOpens, dashVars>>

----------------------------------------------------------------------------
(* The close action: Dashboard.handleEndSession (admin, confirmed) *)

handleEndSession(c) ==
  /\ view[c] = "dashboard"
  /\ Role[userOf[c]] = "admin"
  /\ IF RoomUpdateApplies(userOf[c])
     THEN /\ dbStatus' = "completed"
          /\ queue' = Publish(queue, RoomRow("completed", dbParticipants))
     ELSE UNCHANGED <<dbStatus, queue>>
  /\ toast' = [toast EXCEPT ![c] = ToastEnded]
  /\ nOps' = nOps + 1
  /\ UNCHANGED <<dbParticipants, dbPoints, dbFeedback, toLive, view,
                 localVars, fetchPc, joinVars, rateVars, chan>>
  /\ fault' = [fault EXCEPT ![c].close = NoFailure]
  /\ UNCHANGED modalVars
  /\ UNCHANGED <<linkOpens, dashVars>>

----------------------------------------------------------------------------
(* Rating: MeetingRoom.handleSubmitRating behind the rating modal *)

\* the feedback row of a submission
FeedbackRow(c) ==
  [room_id |-> "R", student_id |-> rateArgs[c].target,
   expert_id |-> userOf[c], rating |-> rateArgs[c].rating,
   comment |-> rateArgs[c].comment]

\* a star button of the roster (canRate, entry of role student) sets
\* ratingTarget; the modal's submit calls handleSubmitRating(rating, comment)
SubmitRatingStart(c, t, r, cm) ==
  /\ Rendered(c)
  /\ canRate(userOf[c])
  /\ ratePc[c] = "idle"
  /\ \E i \in 1..Len(participants[c]) :
        participants[c][i].id = t /\ participants[c][i].role = "student"
  /\ ratePc' = [ratePc EXCEPT ![c] = "insert"]
  /\ rateArgs' = [rateArgs EXCEPT ![c] =
                    [target |-> t, rating |-> r, comment |-> cm]]
  /\ nOps' = nOps + 1
  /\ UNCHANGED <<storeVars, view, localVars, toast, fetchPc, joinVars,
                 rateRead, chan, queue>>
  /\ fault' = [fault EXCEPT ![c].rate = NoFailure]
  /\ UNCHANGED modalVars
  /\ UNCHANGED <<linkOpens, dashVars>>

\* the insert into feedback
SubmitRatingInsert(c) ==
  /\ ratePc[c] = "insert"
  /\ dbFeedback' = Append(dbFeedback, FeedbackRow(c))
  /\ ratePc' = [ratePc EXCEPT ![c] = "read"]
  /\ UNCHANGED <<dbStatus, dbParticipants, dbPoints, toLive, view, localVars,
                 toast, fetchPc, joinVars, rateArgs, rateRead, chan, queue,
                 nOps>>
  /\ UNCHANGED <<fault, modalVars>>
  /\ UNCHANGED <<linkOpens, dashVars>>

\* the select of the rated profile's points
SubmitRatingRead(c) ==
  /\ ratePc[c] = "read"
  /\ rateRead' = [rateRead EXCEPT ![c] = dbPoints[rateArgs[c].target]]
  /\ ratePc' = [ratePc EXCEPT ![c] = "write"]
  /\ UNCHANGED <<storeVars, view, localVars, toast, fetchPc, joinVars,
                 rateArgs, chan, queue, nOps>>
  /\ UNCHANGED <<fault, modalVars>>
  /\ UNCHANGED <<linkOpens, dashVars>>

\* the update of the rated profile's points, then the notification
SubmitRatingWrite(c) ==
  /\ ratePc[c] = "write"
  /\ dbPoints' = [dbPoints EXCEPT ![rateArgs[c].target] =
                    NewPoints(rateRead[c], rateArgs[c].rating)]
  /\ toast' = [toast EXCEPT ![c] = ToastRated]
  /\ ratePc' = [ratePc EXCEPT ![c] = "idle"]
  /\ rateArgs' = [rateArgs EXCEPT ![c] = NoArgs]
  /\ rateRead' = [rateRead EXCEPT ![c] = 0]
  /\ UNCHANGED <<dbStatus, dbParticipants, dbFeedback, toLive, view,
                 localVars, fetchPc, joinVars, chan, queue, nOps>>
  /\ UNCHANGED <<fault, modalVars>>
  /\ UNCHANGED <<linkOpens, dashVars>>

----------------------------------------------------------------------------
(* Store calls that fail.  A supabase call that the store refuses or that
   does not reach it resolves with { data: null, error } ("error"); a
   handler sees the failure only where it reads the error.  A call whose
   promise rejects ("throw") lands in the handler's catch block. *)

FailureModes == {"error", "throw"}

ToastNotFound      == "Room not found: The session does not exist."
ToastCheckInFailed == "Check-in failed: Could not join session."
ToastJoinFailed    == "Error: Failed to join."
ToastRatingFailed  == "Error: Failed to submit rating."
ToastEndFailed     == "Error: Could not end session"

\* fetchRoom's test on the result of its select
RoomMissingNever(error, data) == FALSE

RoomMissing(error, data) == error \/ data = NoRoom

\* fetchRoom, the select fails.  With an error result: the "Room not found"
\* notification, navigate("/dashboard") and return; the finally block sets
\* isLoadingRoom before the route change destroys the component.  With a
\* rejection: the catch logs it and the finally block runs.
FetchReadFails(c, how) ==
  /\ fetchPc[c] = "read"
  /\ fault' = [fault EXCEPT ![c].fetch = Failure("read", how)]
  /\ fetchPc' = [fetchPc EXCEPT ![c] = "idle"]
  /\ isLoadingRoom' = IF Mounted(c)
                      THEN [isLoadingRoom EXCEPT ![c] = FALSE]
                      ELSE isLoadingRoom
  /\ IF how = "error" /\ RoomMissing(TRUE, NoRoom)
     THEN /\ toast' = [toast EXCEPT ![c] = ToastNotFound]
          /\ view' = [view EXCEPT ![c] = "dashboard"]
          /\ room' = [room EXCEPT ![c] = NoRoom]
          /\ participants' = [participants EXCEPT ![c] = <<>>]
          /\ chan' = [chan EXCEPT ![c] =
                        IF chan[c] = "joined" THEN "leaving" ELSE chan[c]]
     ELSE UNCHANGED <<toast, view, room, participants, chan>>
  /\ UNCHANGED <<storeVars, feedbackFeed, joinVars, rateVars, queue, nOps,
                 modalVars>>
  /\ UNCHANGED <<linkOpens, dashVars>>

\* fetchRoom, the update to live fails: its result is not read, a rejection
\* is logged by the catch; the finally block runs
FetchWriteFails(c, how) ==
  /\ fetchPc[c] = "write"
  /\ fault' = [fault EXCEPT ![c].fetch = Failure("write", how)]
  /\ fetchPc' = [fetchPc EXCEPT ![c] = "idle"]
  /\ isLoadingRoom' = IF Mounted(c)
                      THEN [isLoadingRoom EXCEPT ![c] = FALSE]
                      ELSE isLoadingRoom
  /\ UNCHANGED <<storeVars, view, room, participants, feedbackFeed, toast,
                 joinVars, rateVars, chan, queue, nOps, modalVars>>
  /\ UNCHANGED <<linkOpens, dashVars>>

\* handleOpenMeetingLink, the select fails.  With an error result only data
\* is read: currentRoom is null, currentParticipants is [] and the handler
\* goes on to its update.  A rejection raises "Check-in failed".
OpenMeetingLinkReadFails(c, how) ==
  /\ joinPc[c] = "mr_read"
  /\ fault' = [fault EXCEPT ![c].join = Failure("read", how)]
  /\ IF how = "error"
     THEN LET currentParticipants == <<>> IN
          /\ joinRead' = [joinRead EXCEPT ![c] = currentParticipants]
          /\ IF ~HasId(currentParticipants, userOf[c])
             THEN /\ joinPc' = [joinPc EXCEPT ![c] = "mr_write"]
                  /\ UNCHANGED toast
             ELSE /\ joinPc' = [joinPc EXCEPT ![c] = "idle"]
                  /\ toast' = [toast EXCEPT ![c] = ToastCheckedIn]
     ELSE /\ joinPc' = [joinPc EXCEPT ![c] = "idle"]
          /\ toast' = [toast EXCEPT ![c] = ToastCheckInFailed]
          /\ UNCHANGED joinRead
  /\ UNCHANGED <<storeVars, view, localVars, fetchPc, rateVars, chan, queue,
                 nOps, modalVars>>
  /\ UNCHANGED <<linkOpens, dashVars>>

\* handleOpenMeetingLink, the update fails.  Its result is not read: the
\* link opens and "Checked in!" is raised.  A rejection raises "Check-in
\* failed".
OpenMeetingLinkWriteFails(c, how) ==
  /\ joinPc[c] = "mr_write"
  /\ fault' = [fault EXCEPT ![c].join = Failure("write", how)]
  /\ joinPc' = [joinPc EXCEPT ![c] = "idle"]
  /\ toast' = [toast EXCEPT ![c] =
                 IF how = "error" THEN ToastCheckedIn ELSE ToastCheckInFailed]
  /\ UNCHANGED <<storeVars, view, localVars, fetchPc, joinRead, rateVars,
                 chan, queue, nOps, modalVars>>
  /\ linkOpens' = IF how = "error"
                  THEN [linkOpens EXCEPT ![c] = @ + 1]
                  ELSE linkOpens
  /\ UNCHANGED dashVars

\* Dashboard.handleJoinRoom, the select fails.  With an error result room is
\* null: the update is skipped and the handler navigates to the room view.
\* A rejection raises "Failed to join." and the dashboard stays.
JoinRoomReadFails(c, how) ==
  /\ joinPc[c] = "db_read"
  /\ fault' = [fault EXCEPT ![c].join = Failure("read", how)]
  /\ joinPc' = [joinPc EXCEPT ![c] = "idle"]
  /\ IF how = "error"
     THEN /\ MountRoom(c)
          /\ queue' = [queue EXCEPT ![c] = <<>>]
          /\ UNCHANGED toast
     ELSE /\ toast' = [toast EXCEPT ![c] = ToastJoinFailed]
          /\ UNCHANGED <<view, room, participants, isLoadingRoom, fetchPc,
                         chan, queue>>
  /\ UNCHANGED <<storeVars, feedbackFeed, joinRead, rateVars, nOps,
                 modalVars>>
  /\ UNCHANGED <<linkOpens, dashVars>>

\* Dashboard.handleJoinRoom, the update fails.  Its result is not read: the
\* handler navigates to the room view.  A rejection raises "Failed to join."
JoinRoomWriteFails(c, how) ==
  /\ joinPc[c] = "db_write"
  /\ fault' = [fault EXCEPT ![c].join = Failure("write", how)]
  /\ joinPc' = [joinPc EXCEPT ![c] = "idle"]
  /\ IF how = "error"
     THEN /\ MountRoom(c)
          /\ queue' = [queue EXCEPT ![c] = <<>>]
          /\ UNCHANGED toast
     ELSE /\ toast' = [toast EXCEPT ![c] = ToastJoinFailed]
          /\ UNCHANGED <<view, room, participants, isLoadingRoom, fetchPc,
                         chan, queue>>
  /\ UNCHANGED <<storeVars, feedbackFeed, joinRead, rateVars, nOps,
                 modalVars>>
  /\ UNCHANGED <<linkOpens, dashVars>>

\* handleSubmitRating, the insert fails.  Its result is not read: the
\* handler goes on to the points select.  A rejection raises "Failed to
\* submit rating."
SubmitRatingInsertFails(c, how) ==
  /\ ratePc[c] = "insert"
  /\ fault' = [fault EXCEPT ![c].rate = Failure("insert", how)]
  /\ IF how = "error"
     THEN /\ ratePc' = [ratePc EXCEPT ![c] = "read"]
          /\ UNCHANGED <<toast, rateArgs>>
     ELSE /\ ratePc' = [ratePc EXCEPT ![c] = "idle"]
          /\ rateArgs' = [rateArgs EXCEPT ![c] = NoArgs]
          /\ toast' = [toast EXCEPT ![c] = ToastRatingFailed]
  /\ UNCHANGED <<storeVars, view, localVars, fetchPc, joinVars, rateRead,
                 chan, queue, nOps, modalVars>>
  /\ UNCHANGED <<linkOpens, dashVars>>

\* handleSubmitRating, the points select fails.  With an error result
\* studentData is null: the update is skipped and "Rating submitted" is
\* raised.  A rejection raises "Failed to submit rating."
SubmitRatingReadFails(c, how) ==
  /\ ratePc[c] = "read"
  /\ fault' = [fault EXCEPT ![c].rate = Failure("read", how)]
  /\ ratePc' = [ratePc EXCEPT ![c] = "idle"]
  /\ rateArgs' = [rateArgs EXCEPT ![c] = NoArgs]
  /\ toast' = [toast EXCEPT ![c] =
                 IF how = "error" THEN ToastRated ELSE ToastRatingFailed]
  /\ UNCHANGED <<storeVars, view, localVars, fetchPc, joinVars, rateRead,
                 chan, queue, nOps, modalVars>>
  /\ UNCHANGED <<linkOpens, dashVars>>

\* handleSubmitRating, the points update fails.  Its result is not read:
\* "Rating submitted" is raised.  A rejection raises "Failed to submit
\* rating."
SubmitRatingWriteFails(c, how) ==
  /\ ratePc[c] = "write"
  /\ fault' = [fault EXCEPT ![c].rate = Failure("write", how)]
  /\ ratePc' = [ratePc EXCEPT ![c] = "idle"]
  /\ rateArgs' = [rateArgs EXCEPT ![c] = NoArgs]
  /\ rateRead' = [rateRead EXCEPT ![c] = 0]
  /\ toast' = [toast EXCEPT ![c] =
                 IF how = "error" THEN ToastRated ELSE ToastRatingFailed]
  /\ UNCHANGED <<storeVars, view, localVars, fetchPc, joinVars, chan, queue,
                 nOps, modalVars>>
  /\ UNCHANGED <<linkOpens, dashVars>>

\* Dashboard.handleEndSession, the update fails.  Its result is not read:
\* "Session Ended" is raised.  A rejection raises "Could not end session".
EndSessionFails(c, how) ==
  /\ view[c] = "dashboard"
  /\ Role[userOf[c]] = "admin"
  /\ fault' = [fault EXCEPT ![c].close = Failure("update", how)]
  /\ toast' = [toast EXCEPT ![c] =
                 IF how = "error" THEN ToastEnded ELSE ToastEndFailed]
  /\ nOps' = nOps + 1
  /\ UNCHANGED <<storeVars, view, localVars, fetchPc, joinVars, rateVars,
                 chan, queue, modalVars>>
  /\ UNCHANGED <<linkOpens, dashVars>>

\* a store call of a handler in flight fails
FailureStep(c) ==
  \/ \E how \in FailureModes : FetchReadFails(c, how)
  \/ \E how \in FailureModes : FetchWriteFails(c, how)
  \/ \E how \in FailureModes : OpenMeetingLinkReadFails(c, how)
  \/ \E how \in FailureModes : OpenMeetingLinkWriteFails(c, how)
  \/ \E how \in FailureModes : JoinRoomReadFails(c, how)
  \/ \E how \in FailureModes : JoinRoomWriteFails(c, how)
  \/ \E how \in FailureModes : SubmitRatingInsertFails(c, how)
  \/ \E how \in FailureModes : SubmitRatingReadFails(c, how)
  \/ \E how \in FailureModes : SubmitRatingWriteFails(c, how)

----------------------------------------------------------------------------
(* The modals: CreateSessionModal.handleSubmit and RatingModal.handleSubmit.
   onSubmit is a prop of each component; calls counts its invocations. *)

\* the values typed into the domain and topic fields
Domains == {"", "tech"}
Topics  == {"", "System design"}

\* a meeting link is the text typed, as a sequence of parts
LinkParts == {"meet.google", ".com", "zoom.us"}

RECURSIVE LinksOfLen(_)
LinksOfLen(n) ==
  IF n = 0 THEN {<<>>}
  ELSE {Append(l, p) : l \in LinksOfLen(n - 1), p \in LinkParts}

Links == UNION {LinksOfLen(n) : n \in 0..MaxLinkLen}

MeetHost == <<"meet.google", ".com">>
ZoomHost == <<"zoom.us">>

\* String.prototype.includes
Includes(text, part) ==
  \E i \in 1..(Len(text) - Len(part) + 1) :
     SubSeq(text, i, i + Len(part) - 1) = part

\* a link test that knows Google Meet only
IsMeetingLinkMeetOnly(link) == Includes(link, MeetHost)

\* the link test of handleSubmit
IsMeetingLink(link) == Includes(link, MeetHost) \/ Includes(link, ZoomHost)

ErrorFillAll == "Please fill in all fields"
ErrorLink    == "Please enter a valid Google Meet or Zoom link"
ErrorFailed  == "Failed to create session. Please try again."

\* everything but the modals
pageVars ==
  <<storeVars, view, localVars, toast, fetchPc, joinVars, rateVars, chan,
    queue, nOps, fault, linkOpens, dashVars>>

\* the onChange handlers of the create-session form
setDomain(d) ==
  /\ createModal' = [createModal EXCEPT !.domain = d]
  /\ UNCHANGED <<ratingModal, pageVars>>

setTopic(t) ==
  /\ createModal' = [createModal EXCEPT !.topic = t]
  /\ UNCHANGED <<ratingModal, pageVars>>

setMeetingLink(l) ==
  /\ createModal' = [createModal EXCEPT !.meetingLink = l]
  /\ UNCHANGED <<ratingModal, pageVars>>

\* CreateSessionModal.handleSubmit: the two checks with their inline errors,
\* then onSubmit; the form is reset when it resolves, the failure message is
\* set when it rejects
CreateSessionSubmit(resolves) ==
  /\ LET domain == createModal.domain
         topic == createModal.topic
         meetingLink == createModal.meetingLink
     IN IF domain = "" \/ topic = "" \/ meetingLink = <<>>
        THEN createModal' = [createModal EXCEPT !.error = ErrorFillAll]
        ELSE IF ~IsMeetingLink(meetingLink)
        THEN createModal' = [createModal EXCEPT !.error = ErrorLink]
        ELSE /\ createModal.calls < MaxCreates
             /\ createModal' =
                  IF resolves
                  THEN [domain |-> "", topic |-> "", meetingLink |-> <<>>,
                        error |-> "", calls |-> createModal.calls + 1]
                  ELSE [createModal EXCEPT !.error = ErrorFailed,
                                           !.calls = @ + 1]
  /\ UNCHANGED <<ratingModal, pageVars>>

\* the stars and the comment box of the rating modal
setRating(r) ==
  /\ ratingModal' = [ratingModal EXCEPT !.rating = r]
  /\ UNCHANGED <<createModal, pageVars>>

setComment(cm) ==
  /\ ratingModal' = [ratingModal EXCEPT !.comment = cm]
  /\ UNCHANGED <<createModal, pageVars>>

\* RatingModal.handleClose: setRating(0), setComment('') and onClose
RatingModalClose ==
  /\ ratingModal' = [ratingModal EXCEPT !.rating = 0, !.comment = ""]
  /\ UNCHANGED <<createModal, pageVars>>

\* a Submit button that stays enabled while a submit is in flight
RatingModalSubmitWhileSubmitting ==
  /\ IF ratingModal.rating = 0
     THEN UNCHANGED ratingModal
     ELSE /\ ratingModal.calls < MaxSubmits
          /\ ratingModal' = [ratingModal EXCEPT !.isSubmitting = TRUE,
                                                !.inFlight = @ + 1,
                                                !.calls = @ + 1]
  /\ UNCHANGED <<createModal, pageVars>>

\* the Submit button (disabled while isSubmitting) and
\* RatingModal.handleSubmit up to its await: nothing when no star is
\* selected, else setIsSubmitting(true) and onSubmit(rating, comment)
RatingModalSubmit ==
  /\ ~ratingModal.isSubmitting
  /\ IF ratingModal.rating = 0
     THEN UNCHANGED ratingModal
     ELSE /\ ratingModal.calls < MaxSubmits
          /\ ratingModal' = [ratingModal EXCEPT !.isSubmitting = TRUE,
                                                !.inFlight = @ + 1,
                                                !.calls = @ + 1]
  /\ UNCHANGED <<createModal, pageVars>>

\* RatingModal.handleSubmit after its await: the reset when onSubmit
\* resolved, and the finally block either way
RatingModalSettle(resolves) ==
  /\ ratingModal.inFlight > 0
  /\ ratingModal' =
       IF resolves
       THEN [ratingModal EXCEPT !.rating = 0, !.comment = "",
                                !.isSubmitting = FALSE, !.inFlight = @ - 1]
       ELSE [ratingModal EXCEPT !.isSubmitting = FALSE, !.inFlight = @ - 1]
  /\ UNCHANGED <<createModal, pageVars>>

----------------------------------------------------------------------------
(* Specifications *)

\* no handler of any client is between two of its awaits
NoneInFlight ==
  \A c \in Clients : fetchPc[c] = "idle" /\ joinPc[c] = "idle" /\ ratePc[c] = "idle"

\* the rater picks a roster entry, the stars and a comment, and submits
RatingAction(c) ==
  \E t \in Users, r \in Ratings, cm \in Comments : SubmitRatingStart(c, t, r, cm)

\* a store call of a handler in flight lands and the handler runs on
RoomStep(c) ==
  \/ FetchRead(c)
  \/ FetchWrite(c)
  \/ OpenMeetingLinkRead(c)
  \/ OpenMeetingLinkWrite(c)
  \/ JoinRoomRead(c)
  \/ JoinRoomWrite(c)

RatingStep(c) ==
  \/ SubmitRatingInsert(c)
  \/ SubmitRatingRead(c)
  \/ SubmitRatingWrite(c)

ChannelStep(c) ==
  \/ OnRoomUpdate(c)
  \/ ChannelRemoved(c)

\* the room flow: view loads, admissions and the close action of an admin
\* and two students, in every interleaving
RoomClients == {"c1", "c2", "c3"}

Next ==
  \E c \in RoomClients :
     \/ nOps < MaxOps /\ OpenRoomRoute(c)
     \/ nOps < MaxOps /\ LeaveRoom(c)
     \/ nOps < MaxOps /\ OpenMeetingLinkStart(c)
     \/ nOps < MaxOps /\ JoinRoomStart(c)
     \/ nOps < MaxOps /\ handleEndSession(c)
     \/ RoomStep(c)
     \/ ChannelStep(c)

Spec == Init /\ [][Next]_vars

\* one session per profile
Sessions == {"c1", "c2", "c3", "c4"}

\* every handler of every session, one at a time: none starts while another
\* is in flight
SeqNext ==
  \E c \in Sessions :
     \/ nOps < MaxSeqOps /\ NoneInFlight /\ OpenRoomRoute(c)
     \/ nOps < MaxSeqOps /\ NoneInFlight /\ LeaveRoom(c)
     \/ nOps < MaxSeqOps /\ NoneInFlight /\ OpenMeetingLinkStart(c)
     \/ nOps < MaxSeqOps /\ NoneInFlight /\ JoinRoomStart(c)
     \/ nOps < MaxSeqOps /\ NoneInFlight /\ handleEndSession(c)
     \/ nOps < MaxSeqOps /\ NoneInFlight /\ RatingAction(c)
     \/ RoomStep(c)
     \/ RatingStep(c)
     \/ ChannelStep(c)

SeqSpec == Init /\ [][SeqNext]_vars

\* the scenario of a student X and an expert E on a fresh room: both may
\* load the room view, X checks in through it, E rates
X == "c2"
E == "c4"

ScenarioNext ==
  \/ \E c \in {X, E} :
        \/ nOps < MaxScenarioOps /\ OpenRoomRoute(c)
        \/ FetchRead(c)
        \/ FetchWrite(c)
        \/ OnRoomUpdate(c)
  \/ nOps < MaxScenarioOps /\ OpenMeetingLinkStart(X)
  \/ OpenMeetingLinkRead(X)
  \/ OpenMeetingLinkWrite(X)
  \/ nOps < MaxScenarioOps /\ RatingAction(E)
  \/ RatingStep(E)

ScenarioSpec == Init /\ [][ScenarioNext]_vars

\* concurrent ratings: the room is live, both students are on the roster and
\* every session has the room view rendered (the state after the two
\* students joined from the dashboard and the admin and the expert opened
\* the room, with every event handled)
Roster == <<Entry("x"), Entry("y")>>

InitRate ==
  /\ dbStatus = "live"
  /\ dbParticipants = Roster
  /\ dbPoints = [u \in Users |-> InitialPoints]
  /\ dbFeedback = <<>>
  /\ view = [c \in Clients |-> IF c \in Sessions THEN "room" ELSE "dashboard"]
  /\ room = [c \in Clients |->
               IF c \in Sessions THEN RoomRow("live", Roster) ELSE NoRoom]
  /\ participants = [c \in Clients |-> IF c \in Sessions THEN Roster ELSE <<>>]
  /\ isLoadingRoom = [c \in Clients |-> c \notin Sessions]
  /\ feedbackFeed = [c \in Clients |-> <<>>]
  /\ toast = [c \in Clients |-> "none"]
  /\ fetchPc = [c \in Clients |-> "idle"]
  /\ joinPc = [c \in Clients |-> "idle"]
  /\ joinRead = [c \in Clients |->
                   IF c = "c2" THEN <<>> ELSE IF c = "c3" THEN <<Entry("x")>>
                   ELSE NoRead]
  /\ ratePc = [c \in Clients |-> "idle"]
  /\ rateArgs = [c \in Clients |-> NoArgs]
  /\ rateRead = [c \in Clients |-> 0]
  /\ chan = [c \in Clients |-> IF c \in Sessions THEN "joined" ELSE "none"]
  /\ queue = [c \in Clients |-> <<>>]
  /\ nOps = 0
  /\ toLive = 1
  /\ fault = [c \in Clients |-> NoFault]
  /\ createModal = EmptyCreateModal
  /\ ratingModal = EmptyRatingModal
  /\ linkOpens = [c \in Clients |-> 0]
  /\ fetchData = [c \in Clients |-> NoRoom]
  /\ dbRooms = <<>>
  /\ showCreateModal = [c \in Clients |-> FALSE]
  /\ activeRooms = [c \in Clients |-> {}]
  /\ roomsChanges = [c \in Clients |-> 0]
  /\ listFetches = [c \in Clients |-> <<>>]
  /\ joinTarget = [c \in Clients |-> 0]
  /\ createCall = [c \in Clients |-> NoCreate]
  /\ joinDomain = [c \in Clients |-> ""]

RateNext ==
  \E c \in Sessions :
     \/ nOps < MaxRatings /\ RatingAction(c)
     \/ RatingStep(c)

RateSpec == InitRate /\ [][RateNext]_vars

\* the room channel against every status the room row can hold: the row's
\* status is set by any writer of the store, the views of two students load,
\* handle the events and leave
RoomStatusUpdated(st) ==
  /\ dbStatus' = st
  /\ toLive' = IF dbStatus = "waiting" /\ st = "live" THEN toLive + 1 ELSE toLive
  /\ queue' = Publish(queue, RoomRow(st, dbParticipants))
  /\ nOps' = nOps + 1
  /\ UNCHANGED <<dbParticipants, dbPoints, dbFeedback, view, localVars, toast,
                 fetchPc, joinVars, rateVars, chan>>
  /\ UNCHANGED <<fault, modalVars>>
  /\ UNCHANGED <<linkOpens, dashVars>>

\* the same, with an event that carries no participants: the change
\* stream leaves out a column that the update did not touch and that is
\* stored out of line
RoomStatusUpdatedBare(st) ==
  /\ dbStatus' = st
  /\ toLive' = IF dbStatus = "waiting" /\ st = "live" THEN toLive + 1 ELSE toLive
  /\ queue' = Publish(queue, [status |-> st])
  /\ nOps' = nOps + 1
  /\ UNCHANGED <<dbParticipants, dbPoints, dbFeedback, view, localVars, toast,
                 fetchPc, joinVars, rateVars, chan>>
  /\ UNCHANGED <<fault, modalVars>>
  /\ UNCHANGED <<linkOpens, dashVars>>

EventNext ==
  \/ \E st \in Statuses : nOps < MaxEventOps /\ RoomStatusUpdated(st)
  \/ \E st \in Statuses : nOps < MaxEventOps /\ RoomStatusUpdatedBare(st)
  \/ \E c \in {"c2", "c3"} :
        \/ nOps < MaxEventOps /\ OpenRoomRoute(c)
        \/ nOps < MaxEventOps /\ LeaveRoom(c)
        \/ nOps < MaxEventOps /\ OpenMeetingLinkStart(c)
        \/ FetchRead(c)
        \/ FetchWrite(c)
        \/ OpenMeetingLinkRead(c)
        \/ OpenMeetingLinkWrite(c)
        \/ ChannelStep(c)

EventSpec == Init /\ [][EventNext]_vars

\* two students load the room view and check in while the response of a
\* fetchRoom select and the update events reach a view in any order
ViewClients == {"c2", "c3"}

ViewNext ==
  \E c \in ViewClients :
     \/ nOps < MaxViewOps /\ OpenRoomRoute(c)
     \/ nOps < MaxViewOps /\ OpenMeetingLinkStart(c)
     \/ FetchSelect(c)
     \/ FetchResponse(c)
     \/ FetchWrite(c)
     \/ OpenMeetingLinkRead(c)
     \/ OpenMeetingLinkWrite(c)
     \/ OnRoomUpdate(c)

ViewSpec == Init /\ [][ViewNext]_vars

\* joins by two sessions of one student and by an expert, through the room
\* view and through both dashboards, in every interleaving
JoinClients == {"c2", "c5", "c4"}

JoinNext ==
  \E c \in JoinClients :
     \/ nOps < MaxJoinOps /\ OpenRoomRoute(c)
     \/ nOps < MaxJoinOps /\ LeaveRoom(c)
     \/ nOps < MaxJoinOps /\ OpenMeetingLinkStart(c)
     \/ nOps < MaxJoinOps /\ JoinRoomStart(c)
     \/ nOps < MaxJoinOps /\ JoinRoomStartAnyRole(c)
     \/ RoomStep(c)
     \/ ChannelStep(c)

JoinSpec == Init /\ [][JoinNext]_vars

\* the two modals: typing, selecting stars and submitting in any order
FormNext ==
  \/ \E d \in Domains : setDomain(d)
  \/ \E t \in Topics : setTopic(t)
  \/ \E l \in Links : setMeetingLink(l)
  \/ \E resolves \in BOOLEAN : CreateSessionSubmit(resolves)
  \/ \E r \in Ratings : setRating(r)
  \/ \E cm \in Comments : setComment(cm)
  \/ RatingModalClose
  \/ RatingModalSubmit
  \/ \E resolves \in BOOLEAN : RatingModalSettle(resolves)

FormSpec == Init /\ [][FormNext]_vars

\* failing store calls: an admin and a student load, join, rate, leave and
\* close while any store call of theirs may fail
FaultClients == {"c1", "c2"}

FaultNext ==
  \E c \in FaultClients :
     \/ nOps < MaxFaultOps /\ OpenRoomRoute(c)
     \/ nOps < MaxFaultOps /\ LeaveRoom(c)
     \/ nOps < MaxFaultOps /\ OpenMeetingLinkStart(c)
     \/ nOps < MaxFaultOps /\ JoinRoomStart(c)
     \/ nOps < MaxFaultOps /\ handleEndSession(c)
     \/ nOps < MaxFaultOps /\ RatingAction(c)
     \/ \E how \in FailureModes : nOps < MaxFaultOps /\ EndSessionFails(c, how)
     \/ RoomStep(c)
     \/ RatingStep(c)
     \/ ChannelStep(c)
     \/ FailureStep(c)

FaultSpec == Init /\ [][FaultNext]_vars

----------------------------------------------------------------------------
(* The dashboard: the create-session modal and the list of active rooms *)

\* what the dashboard's handlers leave alone
roomPageVars ==
  <<storeVars, view, localVars, fetchPc, rateVars, chan, queue, nOps,
    linkOpens, ratingModal, fetchData>>

\* the sessions whose dashboard is on screen; the others are signed out
DashClients == {"c1", "c2"}

ToastSessionCreated == "Session created: Experts and students can now join."

isAdminAnyRole(u) == u \in Users

\* dashboardProfile.role === "admin"
isAdmin(u) == Role[u] = "admin"

\* a change of a rows of rooms is published to the rooms-list channel of
\* every dashboard on screen
PublishRooms(n) ==
  [c \in Clients |->
     IF c \in DashClients /\ view[c] = "dashboard" THEN n[c] + 1 ELSE n[c]]

\* fetchActiveRooms(): one more select on its way to the store
fetchActiveRooms(f, c) ==
  [f EXCEPT ![c] = Append(@, [at |-> "sent", data |-> {}])]

\* the ids of the stored rooms a fetchActiveRooms select returns
StoredActiveRooms ==
  {i \in DOMAIN dbRooms : dbRooms[i].status \in ActiveStatuses}

\* the "Create Session" button, rendered in the admin panel only
OpenCreateModal(c) ==
  /\ view[c] = "dashboard"
  /\ isAdmin(userOf[c])
  /\ ~showCreateModal[c]
  /\ showCreateModal' = [showCreateModal EXCEPT ![c] = TRUE]
  /\ UNCHANGED <<roomPageVars, toast, fault, joinVars, createModal, dbRooms,
                 activeRooms, roomsChanges, listFetches, joinTarget,
                 createCall, joinDomain>>

\* onClose of the modal: Cancel, or the dialog closed
CloseCreateModal(c) ==
  /\ showCreateModal[c]
  /\ showCreateModal' = [showCreateModal EXCEPT ![c] = FALSE]
  /\ UNCHANGED <<roomPageVars, toast, fault, joinVars, createModal, dbRooms,
                 activeRooms, roomsChanges, listFetches, joinTarget,
                 createCall, joinDomain>>

\* handleSubmit of the modal up to its await: the checks, then onSubmit,
\* which is handleCreateSession and sends the insert
CreateSessionStart(c) ==
  /\ showCreateModal[c]
  /\ createCall[c].pc = "idle"
  /\ LET domain == createModal.domain
         topic == createModal.topic
         meetingLink == createModal.meetingLink
     IN IF domain = "" \/ topic = "" \/ meetingLink = <<>>
        THEN /\ createModal' = [createModal EXCEPT !.error = ErrorFillAll]
             /\ UNCHANGED createCall
        ELSE IF ~IsMeetingLink(meetingLink)
        THEN /\ createModal' = [createModal EXCEPT !.error = ErrorLink]
             /\ UNCHANGED createCall
        ELSE /\ createModal.calls < MaxCreates
             /\ createModal' = [createModal EXCEPT !.error = "",
                                                   !.calls = @ + 1]
             /\ createCall' =
                  [createCall EXCEPT ![c] =
                     [pc |-> "insert", domain |-> domain, topic |-> topic,
                      meeting_link |-> meetingLink]]
  /\ fault' = [fault EXCEPT ![c].create = NoFailure]
  /\ UNCHANGED <<roomPageVars, toast, joinVars, dbRooms, showCreateModal,
                 activeRooms, roomsChanges, listFetches, joinTarget,
                 joinDomain>>

\* the insert of handleCreateSession succeeds: the row is stored, the toast
\* shown, the modal closed and emptied, the list fetched again
handleCreateSession(c) ==
  /\ createCall[c].pc = "insert"
  /\ Len(listFetches[c]) < MaxFetches
  /\ dbRooms' = Append(dbRooms,
                  [topic |-> createCall[c].topic,
                   domain |-> createCall[c].domain,
                   meeting_link |-> createCall[c].meeting_link,
                   status |-> "waiting",
                   participants |-> <<>>,
                   host_id |-> userOf[c]])
  /\ roomsChanges' = PublishRooms(roomsChanges)
  /\ toast' = [toast EXCEPT ![c] = ToastSessionCreated]
  /\ showCreateModal' = [showCreateModal EXCEPT ![c] = FALSE]
  /\ listFetches' = fetchActiveRooms(listFetches, c)
  /\ createModal' = [createModal EXCEPT !.domain = "", !.topic = "",
                                        !.meetingLink = <<>>]
  /\ createCall' = [createCall EXCEPT ![c] = NoCreate]
  /\ UNCHANGED <<roomPageVars, fault, joinVars, activeRooms, joinTarget,
                 joinDomain>>

\* the insert fails: handleCreateSession throws (if (error) throw error, or
\* the rejected await) and the modal's catch shows its error
handleCreateSessionFails(c, how) ==
  /\ createCall[c].pc = "insert"
  /\ how \in FailureModes
  /\ createModal' = [createModal EXCEPT !.error = ErrorFailed]
  /\ createCall' = [createCall EXCEPT ![c] = NoCreate]
  /\ fault' = [fault EXCEPT ![c].create = Failure("insert", how)]
  /\ UNCHANGED <<roomPageVars, toast, joinVars, dbRooms, showCreateModal,
                 activeRooms, roomsChanges, listFetches, joinTarget,
                 joinDomain>>

\* handleEndSession(room.id) on the card of a created room, confirmed: its
\* stored status becomes completed, the toast is shown, the list fetched
handleEndSessionOf(c, i) ==
  /\ view[c] = "dashboard"
  /\ isAdmin(userOf[c])
  /\ i \in activeRooms[c]
  /\ Len(listFetches[c]) < MaxFetches
  /\ dbRooms' = [dbRooms EXCEPT ![i].status = "completed"]
  /\ roomsChanges' = PublishRooms(roomsChanges)
  /\ toast' = [toast EXCEPT ![c] = ToastEnded]
  /\ listFetches' = fetchActiveRooms(listFetches, c)
  /\ UNCHANGED <<roomPageVars, fault, joinVars, createModal,
                 showCreateModal, activeRooms, joinTarget, createCall,
                 joinDomain>>

\* the callback of the rooms-list channel: () => fetchActiveRooms()
OnRoomsChange(c) ==
  /\ view[c] = "dashboard"
  /\ roomsChanges[c] > 0
  /\ Len(listFetches[c]) < MaxFetches
  /\ roomsChanges' = [roomsChanges EXCEPT ![c] = @ - 1]
  /\ listFetches' = fetchActiveRooms(listFetches, c)
  /\ UNCHANGED <<roomPageVars, toast, fault, joinVars, createModal, dbRooms,
                 showCreateModal, activeRooms, joinTarget, createCall,
                 joinDomain>>

\* the store runs one of the client's selects of the active rooms
ActiveRoomsSelect(c, i) ==
  /\ i \in DOMAIN listFetches[c]
  /\ listFetches[c][i].at = "sent"
  /\ listFetches' = [listFetches EXCEPT
                       ![c][i] = [at |-> "done", data |-> StoredActiveRooms]]
  /\ UNCHANGED <<roomPageVars, toast, fault, joinVars, createModal, dbRooms,
                 showCreateModal, activeRooms, roomsChanges, joinTarget,
                 createCall, joinDomain>>

\* one of the client's fetchActiveRooms calls resumes with its rows (the
\* hosts' names are read from profiles and added) and sets activeRooms
ActiveRoomsResponse(c, i) ==
  /\ i \in DOMAIN listFetches[c]
  /\ listFetches[c][i].at = "done"
  /\ activeRooms' = [activeRooms EXCEPT ![c] = listFetches[c][i].data]
  /\ listFetches' = [listFetches EXCEPT
                       ![c] = SubSeq(@, 1, i - 1) \o SubSeq(@, i + 1, Len(@))]
  /\ UNCHANGED <<roomPageVars, toast, fault, joinVars, createModal, dbRooms,
                 showCreateModal, roomsChanges, joinTarget, createCall,
                 joinDomain>>

\* an admin and a student on their dashboards: the admin opens the modal,
\* types, cancels and submits while the insert may fail
CreateNext ==
  \/ \E c \in DashClients : OpenCreateModal(c)
  \/ \E c \in DashClients : CloseCreateModal(c)
  \/ \E d \in Domains : (\E c \in DashClients : showCreateModal[c]) /\ setDomain(d)
  \/ \E t \in Topics : (\E c \in DashClients : showCreateModal[c]) /\ setTopic(t)
  \/ \E l \in Links : (\E c \in DashClients : showCreateModal[c]) /\ setMeetingLink(l)
  \/ \E c \in DashClients : CreateSessionStart(c)
  \/ \E c \in DashClients : handleCreateSession(c)
  \/ \E c \in DashClients, how \in FailureModes : handleCreateSessionFails(c, how)

CreateSpec == Init /\ [][CreateNext]_vars

\* the lists of the two dashboards while the admin creates a session with
\* one valid form and ends it: change events and the responses of
\* overlapping fetches arrive in any order
ListNext ==
  \/ \E c \in DashClients : OpenCreateModal(c)
  \/ (\E c \in DashClients : showCreateModal[c]) /\ setDomain("tech")
  \/ (\E c \in DashClients : showCreateModal[c]) /\ setTopic("System design")
  \/ (\E c \in DashClients : showCreateModal[c]) /\ setMeetingLink(ZoomHost)
  \/ \E c \in DashClients : CreateSessionStart(c)
  \/ \E c \in DashClients : handleCreateSession(c)
  \/ \E c \in DashClients, i \in 1..MaxCreates + 1 : handleEndSessionOf(c, i)
  \/ \E c \in DashClients : OnRoomsChange(c)
  \/ \E c \in DashClients, i \in 1..MaxFetches : ActiveRoomsSelect(c, i)
  \/ \E c \in DashClients, i \in 1..MaxFetches : ActiveRoomsResponse(c, i)

ListSpec == Init /\ [][ListNext]_vars

----------------------------------------------------------------------------
(* Joining a domain from the dashboard: handleJoinDomain *)

\* the domain cards clicked
JoinDomains == {"tech", "finance"}

\* a topic of the domain, taken at random
DomainTopics == {"Future of AI", "FinTech Revolution"}

\* the ids of the stored rooms .eq('domain', d).eq('status', 'waiting') selects
WaitingRooms(d) ==
  {i \in DOMAIN dbRooms : dbRooms[i].domain = d /\ dbRooms[i].status = "waiting"}

\* .maybeSingle(): the row when exactly one is selected, no data otherwise
\* (none selected, or the error of several rows); 0 stands for no data
MaybeSingle(ids) ==
  IF Cardinality(ids) = 1 THEN CHOOSE i \in ids : TRUE ELSE 0

\* the click on a domain card: setIsJoining, the select is sent
handleJoinDomain(c, d) ==
  /\ view[c] = "dashboard"
  /\ fetchPc[c] = "idle" /\ joinPc[c] = "idle" /\ chan[c] = "none"
  /\ joinPc' = [joinPc EXCEPT ![c] = "domain_read"]
  /\ joinDomain' = [joinDomain EXCEPT ![c] = d]
  /\ nOps' = nOps + 1
  /\ UNCHANGED <<storeVars, view, localVars, fetchPc, rateVars, chan, queue,
                 linkOpens, modalVars, fetchData, toast, fault, joinRead,
                 dbRooms, showCreateModal, activeRooms, roomsChanges,
                 listFetches, joinTarget, createCall>>

\* the store runs the select; with a room read the handler checks its list
\* and either goes on to the update or navigates, without one it goes on to
\* the insert
JoinDomainRead(c) ==
  /\ joinPc[c] = "domain_read"
  /\ LET existingRoom == MaybeSingle(WaitingRooms(joinDomain[c])) IN
     /\ joinTarget' = [joinTarget EXCEPT ![c] = existingRoom]
     /\ IF existingRoom # 0
        THEN /\ joinRead' = [joinRead EXCEPT
                               ![c] = dbRooms[existingRoom].participants]
             /\ IF ~HasId(dbRooms[existingRoom].participants, userOf[c])
                THEN /\ joinPc' = [joinPc EXCEPT ![c] = "domain_update"]
                     /\ UNCHANGED <<view, room, participants, isLoadingRoom,
                                    fetchPc, chan, queue, joinDomain>>
                ELSE /\ joinPc' = [joinPc EXCEPT ![c] = "idle"]
                     /\ joinDomain' = [joinDomain EXCEPT ![c] = ""]
                     /\ MountRoom(c)
                     /\ queue' = [queue EXCEPT ![c] = <<>>]
        ELSE /\ joinPc' = [joinPc EXCEPT ![c] = "domain_insert"]
             /\ UNCHANGED <<joinRead, view, room, participants, isLoadingRoom,
                            fetchPc, chan, queue, joinDomain>>
  /\ UNCHANGED <<storeVars, feedbackFeed, rateVars, nOps, linkOpens,
                 modalVars, fetchData, toast, fault, dbRooms,
                 showCreateModal, activeRooms, roomsChanges, listFetches,
                 createCall>>

\* the update of the room read with the list read plus the own entry, then
\* navigate to the room
JoinDomainUpdate(c) ==
  /\ joinPc[c] = "domain_update"
  /\ dbRooms' = [dbRooms EXCEPT
                   ![joinTarget[c]].participants =
                      UpdatedParticipants(joinRead[c], userOf[c])]
  /\ roomsChanges' = PublishRooms(roomsChanges)
  /\ joinPc' = [joinPc EXCEPT ![c] = "idle"]
  /\ joinDomain' = [joinDomain EXCEPT ![c] = ""]
  /\ MountRoom(c)
  /\ queue' = [queue EXCEPT ![c] = <<>>]
  /\ UNCHANGED <<storeVars, feedbackFeed, rateVars, nOps, linkOpens,
                 modalVars, fetchData, toast, fault, joinRead,
                 showCreateModal, activeRooms, listFetches, joinTarget,
                 createCall>>

\* the insert of a new waiting room of the domain with the own entry and the
\* own id as host, then navigate to it
JoinDomainInsert(c, randomTopic) ==
  /\ joinPc[c] = "domain_insert"
  /\ dbRooms' = Append(dbRooms,
                  [topic |-> randomTopic,
                   domain |-> joinDomain[c],
                   meeting_link |-> <<>>,
                   status |-> "waiting",
                   participants |-> <<Entry(userOf[c])>>,
                   host_id |-> userOf[c]])
  /\ roomsChanges' = PublishRooms(roomsChanges)
  /\ joinTarget' = [joinTarget EXCEPT ![c] = Len(dbRooms) + 1]
  /\ joinPc' = [joinPc EXCEPT ![c] = "idle"]
  /\ joinDomain' = [joinDomain EXCEPT ![c] = ""]
  /\ MountRoom(c)
  /\ queue' = [queue EXCEPT ![c] = <<>>]
  /\ UNCHANGED <<storeVars, feedbackFeed, rateVars, nOps, linkOpens,
                 modalVars, fetchData, toast, fault, joinRead,
                 showCreateModal, activeRooms, listFetches, createCall>>

\* two sessions of one student and a second student click domain cards; the
\* steps of their joins interleave in any order
DomainClients == {"c2", "c3", "c5"}

DomainNext ==
  \/ \E c \in DomainClients, d \in JoinDomains : handleJoinDomain(c, d)
  \/ \E c \in DomainClients : JoinDomainRead(c)
  \/ \E c \in DomainClients : JoinDomainUpdate(c)
  \/ \E c \in DomainClients, t \in DomainTopics : JoinDomainInsert(c, t)

DomainSpec == Init /\ [][DomainNext]_vars

----------------------------------------------------------------------------
(* Properties *)

\* the sum of the ratings of the feedback rows stored for a profile
RECURSIVE SumRatings(_, _)
SumRatings(rows, t) ==
  IF rows = <<>> THEN 0
  ELSE (IF Head(rows).student_id = t THEN Head(rows).rating ELSE 0)
       + SumRatings(Tail(rows), t)

\* the ratings of a profile whose feedback row is stored and whose points
\* write is still to come
PendingRatings(t) ==
  LET Pending(c) == IF ratePc[c] \in {"read", "write"} /\ rateArgs[c].target = t
                    THEN rateArgs[c].rating ELSE 0
  IN Pending("c1") + Pending("c2") + Pending("c3") + Pending("c4")
       + Pending("c5")

\* the client's last admission has completed with a write of the list it read
Admitted(c) ==
  /\ joinPc[c] = "idle"
  /\ joinRead[c] # NoRead
  /\ ~HasId(joinRead[c], userOf[c])

\* the list holds every entry of another list
ContainsAll(list, part) ==
  \A i \in 1..Len(part) : \E j \in 1..Len(list) : list[j] = part[i]

\* this step is the client's channel callback handling its oldest event
\* while subscribed
HandlesEvent(c) ==
  /\ chan[c] = "joined"
  /\ queue[c] # <<>>
  /\ queue'[c] = Tail(queue[c])

\* C1: when the joins run one at a time, by any users in any order and with
\* repeated joins by the same user, the stored participant list never holds
\* two entries with the same id.
C1_NoDuplicateIds ==
  \A i, j \in 1..Len(dbParticipants) :
     i # j => dbParticipants[i].id # dbParticipants[j].id

\* C1 witness: two users are on the roster and the last join of one of
\* them read a list that held it already, so it wrote nothing.
C1_RepeatedJoin ==
  /\ Len(dbParticipants) = 2
  /\ \E c \in Clients :
        joinPc[c] = "idle" /\ joinRead[c] # NoRead /\ HasId(joinRead[c], userOf[c])

\* C2: when two clients with distinct ids have both read the same stored
\* list L before either wrote, then after both joins have completed the
\* stored list holds every entry of L, an entry for one and an entry for
\* the other.
C2_BothJoinsKept ==
  \A c, d \in Clients :
     (c # d /\ Admitted(c) /\ Admitted(d) /\ joinRead[c] = joinRead[d])
        => /\ ContainsAll(dbParticipants, joinRead[c])
           /\ HasId(dbParticipants, userOf[c])
           /\ HasId(dbParticipants, userOf[d])

\* C3: when the ratings run one at a time, every completed rating r of a
\* profile has raised its stored points by exactly r * 10: the points are
\* the initial points plus ten times the ratings stored for the profile,
\* the one whose points write is still to come left out.
C3_PointsFollowRatings ==
  \A t \in Users :
     dbPoints[t] = InitialPoints
                     + 10 * (SumRatings(dbFeedback, t) - PendingRatings(t))

\* C3 witness: one rating of 5 stars has completed and the rated profile's
\* points are 50 above the initial points.
C3_FiveStarsGiveFifty ==
  /\ \A c \in Clients : ratePc[c] = "idle"
  /\ Len(dbFeedback) = 1
  /\ dbFeedback[1].rating = 5
  /\ dbPoints[dbFeedback[1].student_id] = InitialPoints + 50

\* C4: when two rating submissions for the same profile overlap in any way,
\* after both have completed the profile's stored points are the baseline
\* plus the sum of both deltas.
C4_BothRatingsCounted ==
  (\A c \in Clients : ratePc[c] = "idle")
     => \A t \in Users :
           dbPoints[t] = InitialPoints + 10 * SumRatings(dbFeedback, t)

\* C4 witness: two ratings of the same profile have completed.
C4_TwoRatingsDone ==
  /\ \A c \in Clients : ratePc[c] = "idle"
  /\ Len(dbFeedback) = 2
  /\ dbFeedback[1].student_id = dbFeedback[2].student_id

\* the client's view load has completed with a row read
LoadDone(c) == Mounted(c) /\ fetchPc[c] = "idle" /\ ~isLoadingRoom[c]

C6_CompletedStays ==
  [][dbStatus = "completed" => dbStatus' = "completed"]_vars

\* C7: after the cleanup of a room view has asked for its channel's
\* removal, no update event of that channel raises the view's session-ended
\* notification and redirect or changes its local state, events already
\* queued at the unmount included.
C7_NoEffectAfterUnsubscribe ==
  [][\A c \in Clients :
       (chan[c] # "joined" /\ queue'[c] # queue[c])
          => /\ toast'[c] = toast[c]
             /\ view'[c] = view[c]
             /\ room'[c] = room[c]
             /\ participants'[c] = participants[c]]_vars

ScenarioQuiet ==
  /\ NoneInFlight
  /\ \A c \in Clients : queue[c] = <<>>

\* C9: when a feedback row has been inserted for the room, every mounted
\* view of the room has prepended it to its feedback list, and the view of
\* the rated student has raised a notification about it.
C9_FeedbackShownLive ==
  (ScenarioQuiet /\ dbFeedback # <<>>)
     => /\ \A c \in {X, E} :
              Mounted(c) => /\ feedbackFeed[c] # <<>>
                            /\ Head(feedbackFeed[c]) = dbFeedback[Len(dbFeedback)]
        /\ toast[X] \notin {"none", ToastCheckedIn}

\* C9 witness: a rating of X by E has been stored and has completed while
\* the views of both are mounted.
C9_RatedWhileMounted ==
  /\ ScenarioQuiet
  /\ dbFeedback # <<>>
  /\ Mounted(X) /\ Mounted(E)

----------------------------------------------------------------------------
(* C11 *)

AdmissionReads  == {"mr_read", "db_read"}
AdmissionWrites == {"mr_write", "db_write"}

\* C11: an admission reads the stored participant list in the same operation;
\* when the list read holds the user's id the operation ends without a write,
\* otherwise it makes one update whose list is the list read, in the same
\* order, with the user's entry appended at the end; the stored list changes
\* in no other step.
C11_AppendsToListRead ==
  [][/\ \A c \in Clients :
          /\ (joinPc[c] \in AdmissionReads /\ joinPc'[c] # joinPc[c])
                => /\ joinRead'[c] = dbParticipants
                   /\ dbParticipants' = dbParticipants
                   /\ IF HasId(dbParticipants, userOf[c])
                      THEN joinPc'[c] = "idle"
                      ELSE joinPc'[c] \in AdmissionWrites
          /\ (joinPc[c] \in AdmissionWrites /\ joinPc'[c] # joinPc[c])
                => /\ joinPc'[c] = "idle"
                   /\ ~HasId(joinRead[c], userOf[c])
                   /\ dbParticipants' =
                        Append(joinRead[c], Entry(userOf[c]))
     /\ (dbParticipants' # dbParticipants)
          => \E c \in Clients : /\ joinPc[c] \in AdmissionWrites
                                 /\ joinPc'[c] = "idle"]_vars

\* a client was admitted after reading a list that held another entry, and
\* the stored list is the list it read followed by its own entry
C11_SecondEntryAppended ==
  \E c \in Clients :
     /\ Admitted(c)
     /\ Len(joinRead[c]) = 1
     /\ dbParticipants = Append(joinRead[c], Entry(userOf[c]))

----------------------------------------------------------------------------
(* C12, C13, C15, C19: store calls that fail *)

\* a store call of the handler failed in this step
FailsNow(c, handler) ==
  /\ fault'[c][handler] # fault[c][handler]
  /\ fault'[c][handler] # NoFailure

\* C12: when the store read or write of an admission fails, the operation is
\* abandoned in that step: the client gets the failure notification of its
\* handler, no success notification, and no store write follows.
C12_FailedAdmissionAbandoned ==
  [][\A c \in Clients :
       FailsNow(c, "join")
         => /\ joinPc'[c] = "idle"
            /\ toast'[c] \in {ToastCheckInFailed, ToastJoinFailed}
            /\ dbParticipants' = dbParticipants]_vars

\* the select of a check-in failed with an error result, and the handler
\* went on to write a list and to raise "Checked in!"
C12_CheckedInAfterFailedRead ==
  \E c \in Clients :
     /\ fault[c].join = Failure("read", "error")
     /\ joinPc[c] = "idle"
     /\ dbParticipants = <<Entry(userOf[c])>>
     /\ toast[c] = ToastCheckedIn

C15_NotFoundRedirects ==
  [][\A c \in Clients :
       (FailsNow(c, "fetch") /\ fault'[c].fetch = Failure("read", "error"))
         => /\ toast'[c] = ToastNotFound
            /\ view'[c] = "dashboard"
            /\ fetchPc'[c] = "idle"
            /\ UNCHANGED storeVars
            /\ (Mounted(c) => ~isLoadingRoom'[c])]_vars

\* a mounted view whose select failed: notified, back on the dashboard, its
\* loader flag cleared and its subscription given up
C15_NotFoundShown ==
  \E c \in Clients :
     /\ fault[c].fetch = Failure("read", "error")
     /\ toast[c] = ToastNotFound
     /\ view[c] = "dashboard"
     /\ fetchPc[c] = "idle"
     /\ ~isLoadingRoom[c]
     /\ chan[c] = "leaving"

\* C19: when the feedback insert succeeded and the points select or update
\* that follows fails, the feedback row stays, the points are unchanged and
\* the rater gets the failure notification, not "Rating submitted".
C19_PointsFailureReported ==
  [][\A c \in Clients :
       (/\ FailsNow(c, "rate")
        /\ fault[c].rate = NoFailure
        /\ fault'[c].rate.call \in {"read", "write"})
         => /\ dbFeedback' = dbFeedback
            /\ dbFeedback # <<>>
            /\ dbPoints' = dbPoints
            /\ toast'[c] = ToastRatingFailed]_vars

\* the row is stored, the points select failed with an error result, the
\* points are as before and the rater was told "Rating submitted"
C19_SubmittedAfterFailedRead ==
  \E c \in Clients :
     /\ fault[c].rate = Failure("read", "error")
     /\ ratePc[c] = "idle"
     /\ Len(dbFeedback) = 1
     /\ dbPoints[dbFeedback[1].student_id] = InitialPoints
     /\ toast[c] = ToastRated

----------------------------------------------------------------------------
(* C14 *)

\* C14: when a subscribed view handles a room update event and stays on the
\* room, its local room is the event's row and its local participants are
\* the event's list, the empty list when the event carries none; nothing of
\* the lists held before is kept.
C14_ViewTakesPayload ==
  [][\A c \in Clients :
       (HandlesEvent(c) /\ Mounted(c) /\ view'[c] = "room")
         => LET updatedRoom == Head(queue[c]) IN
            /\ room'[c] = updatedRoom
            /\ participants'[c] =
                 IF "participants" \in DOMAIN updatedRoom
                 THEN updatedRoom.participants
                 ELSE <<>>]_vars

\* a view that held a roster entry has handled an event without a list and
\* now holds the event's row and the empty list, while the store holds the
\* entry
C14_ListlessEventHandled ==
  \E c \in Clients :
     /\ Mounted(c) /\ LoadDone(c) /\ queue[c] = <<>>
     /\ "participants" \notin DOMAIN room[c]
     /\ participants[c] = <<>>
     /\ dbParticipants # <<>>

----------------------------------------------------------------------------
(* C17 *)

\* C17: the feedback rows and the points change only in a step of a rating
\* submitted by an expert or an admin for a roster entry of role student:
\* the row added names that rater as author and that student, and only
\* that student's points change.  No step of a student's client changes
\* either.
C17_OnlyRatersRateStudents ==
  [][(dbFeedback' # dbFeedback \/ dbPoints' # dbPoints)
       => \E c \in Clients :
            /\ ratePc[c] \in {"insert", "write"} /\ ratePc'[c] # ratePc[c]
            /\ Role[userOf[c]] \in {"expert", "admin"}
            /\ Role[rateArgs[c].target] = "student"
            /\ \/ dbFeedback' = dbFeedback
               \/ /\ Len(dbFeedback') = Len(dbFeedback) + 1
                  /\ SubSeq(dbFeedback', 1, Len(dbFeedback)) = dbFeedback
                  /\ dbFeedback'[Len(dbFeedback')].expert_id = userOf[c]
                  /\ dbFeedback'[Len(dbFeedback')].student_id = rateArgs[c].target
            /\ \A u \in Users \ {rateArgs[c].target} : dbPoints'[u] = dbPoints[u]]_vars

\* an admin's rating of a student is stored and has raised that student's
\* points, while a student has the room rendered with the roster in view
C17_AdminRatedStudent ==
  /\ \E i \in 1..Len(dbFeedback) :
        /\ Role[dbFeedback[i].expert_id] = "admin"
        /\ Role[dbFeedback[i].student_id] = "student"
        /\ dbPoints[dbFeedback[i].student_id] > InitialPoints
  /\ \E c \in Clients :
        Role[userOf[c]] = "student" /\ Rendered(c) /\ participants[c] # <<>>

----------------------------------------------------------------------------
(* C18 *)

\* C18: once an admin's close action has ended with the "Session Ended"
\* notification, the stored status is completed or ended and the room is
\* not among the rooms the dashboard's active-room query returns.
C18_EndedRoomNotActive ==
  (\E c \in Clients : toast[c] = ToastEnded)
     => (dbStatus \in {"completed", "ended"} /\ "R" \notin ActiveRooms)

\* the admin was told "Session Ended" after an update that failed, and the
\* room is still returned by the active-room query
C18_EndedShownForActiveRoom ==
  \E c \in Clients :
     /\ toast[c] = ToastEnded
     /\ fault[c].close = Failure("update", "error")
     /\ "R" \in ActiveRooms

----------------------------------------------------------------------------
(* C20 *)

\* C20: in every reachable state, whatever the interleaving of the joins of
\* any clients, two sessions of one profile among them, through the
\* dashboard or the room view, each profile id occurs at most once in the
\* stored participant list.
C20_EachIdAtMostOnce ==
  \A u \in Users :
     Cardinality({i \in 1..Len(dbParticipants) : dbParticipants[i].id = u}) <= 1

\* two sessions of one profile have both read the same list without their
\* id, one in the dashboard and one in the room view, and both have
\* written
C20_SameProfileJoinedTwice ==
  /\ userOf["c2"] = userOf["c5"]
  /\ Admitted("c2") /\ Admitted("c5")
  /\ joinRead["c2"] = joinRead["c5"]
  /\ toast["c5"] = ToastCheckedIn
  /\ toast["c2"] # ToastCheckedIn

----------------------------------------------------------------------------
(* C16 *)

\* C16: CreateSessionModal.handleSubmit calls onSubmit only when domain,
\* topic and link are all non-empty and the link contains meet.google.com
\* or zoom.us; a submit that sets an inline validation error makes no call
\* and is one of a form that fails that test.  RatingModal.handleSubmit
\* calls onSubmit only when the rating is not 0.
C16_SubmitsOnlyValidForms ==
  [][LET filled == /\ createModal.domain # ""
                   /\ createModal.topic # ""
                   /\ createModal.meetingLink # <<>>
         linkOk == \/ Includes(createModal.meetingLink, <<"meet.google", ".com">>)
                   \/ Includes(createModal.meetingLink, <<"zoom.us">>)
     IN /\ (createModal'.calls # createModal.calls) => (filled /\ linkOk)
        /\ (/\ createModal'.error # createModal.error
            /\ createModal'.error \in {ErrorFillAll, ErrorLink})
             => /\ ~(filled /\ linkOk)
                /\ createModal'.calls = createModal.calls
                /\ (createModal'.error = ErrorFillAll) <=> ~filled
        /\ (ratingModal'.calls # ratingModal.calls)
             => ratingModal.rating \in 1..5]_vars

\* a valid form has been submitted and reset, a later submit of
\* the empty form has set the inline error without a call, and a rating
\* has been submitted
C16_SubmittedThenRefused ==
  /\ createModal.calls = 1
  /\ createModal.error = ErrorFillAll
  /\ createModal.meetingLink = <<>>
  /\ ratingModal.calls = 1
  /\ ratingModal.rating = 0

----------------------------------------------------------------------------
(* C22 *)

\* C22: when the select or the update of an admission fails, the stored
\* participant list is left as it was, and after a failed select the
\* handler issues no update.
C22_FailedAdmissionKeepsList ==
  [][\A c \in Clients :
       /\ FailsNow(c, "join")
            => /\ dbParticipants' = dbParticipants
               /\ (fault'[c].join.call = "read")
                    => joinPc'[c] \notin AdmissionWrites
       /\ (/\ fault[c].join.call = "read"
           /\ joinPc[c] \in AdmissionWrites
           /\ joinPc'[c] # joinPc[c])
            => dbParticipants' = dbParticipants]_vars

\* a student's entry was stored, then a check-in whose select failed with
\* an error result wrote a list without it
C22_RosterReplacedAfterFailedRead ==
  /\ Admitted("c2")
  /\ fault["c1"].join = Failure("read", "error")
  /\ joinPc["c1"] = "idle"
  /\ dbParticipants = <<Entry(userOf["c1"])>>

----------------------------------------------------------------------------
(* C23 *)

\* C23: the waiting-to-live write of a view load and the close action
\* change the stored status only and leave the stored participant list as
\* it was; the write of a roster join changes the list only and leaves the
\* status as it was.  No step changes both.
C23_StatusAndRosterWritesApart ==
  [][/\ (dbStatus' # dbStatus) => (dbParticipants' = dbParticipants)
     /\ (dbParticipants' # dbParticipants) => (dbStatus' = dbStatus)
     /\ \A c \in Clients :
          /\ (fetchPc[c] = "write" /\ fetchPc'[c] = "idle")
               => dbParticipants' = dbParticipants
          /\ (toast'[c] = ToastEnded /\ nOps' = nOps + 1)
               => dbParticipants' = dbParticipants
          /\ (joinPc[c] \in AdmissionWrites /\ joinPc'[c] = "idle")
               => dbStatus' = dbStatus]_vars

\* the room went live once and was closed, and the roster written by a
\* join is stored as written
C23_ClosedWithRoster ==
  /\ dbStatus = "completed"
  /\ toLive = 1
  /\ \E c \in Clients : toast[c] = ToastEnded
  /\ \E c \in Clients :
        Admitted(c) /\ dbParticipants = Append(joinRead[c], Entry(userOf[c]))

----------------------------------------------------------------------------
(* C27, C28 *)

\* C27: a submission changes the rated profile's points only when its own
\* feedback row was stored: after a failed insert the points of every
\* profile stay as they were.
C27_PointsOnlyWithStoredRow ==
  [][\A c \in Clients :
       (ratePc[c] = "write" /\ ratePc'[c] = "idle" /\ dbPoints' # dbPoints)
         => /\ fault[c].rate.call # "insert"
            /\ \E i \in 1..Len(dbFeedback) : dbFeedback[i] = FeedbackRow(c)]_vars

\* no feedback row is stored, a submission whose insert failed has ended
\* and a profile holds more points than it started with
C27_PointsWithoutRow ==
  /\ dbFeedback = <<>>
  /\ \E c \in Clients :
        fault[c].rate = Failure("insert", "error") /\ ratePc[c] = "idle"
  /\ \E u \in Users : dbPoints[u] > InitialPoints

\* C28: under any interleaving of rating submissions a profile's stored
\* points never decrease: every write stores at least the value stored just
\* before it.
C28_PointsNeverDecrease ==
  [][\A u \in Users : dbPoints'[u] >= dbPoints[u]]_vars

\* two ratings of one student are stored and the student's points are below
\* what the higher of the two alone gives
C28_LowerWriteLandedLast ==
  /\ Len(dbFeedback) = 2
  /\ \A c \in Clients : ratePc[c] = "idle"
  /\ dbFeedback[1].student_id = dbFeedback[2].student_id
  /\ \E i \in 1..2 :
        dbPoints[dbFeedback[i].student_id]
          < InitialPoints + 10 * dbFeedback[i].rating

----------------------------------------------------------------------------
(* C21 *)

\* C21: whenever handleOpenMeetingLink opens the meeting link, the user's
\* id is in the stored participant list at that moment.
C21_OpensOnlyWhenOnRoster ==
  [][\A c \in Clients :
       (linkOpens'[c] # linkOpens[c]) => HasId(dbParticipants', userOf[c])]_vars

\* a view opened the link on the strength of its local list, without a
\* check-in, while the stored list does not hold its user and the event
\* that says so is still unhandled
C21_OpenedOffRoster ==
  \E c \in Clients :
     /\ linkOpens[c] = 1
     /\ toast[c] # ToastCheckedIn
     /\ HasId(participants[c], userOf[c])
     /\ ~HasId(dbParticipants, userOf[c])
     /\ queue[c] # <<>>

----------------------------------------------------------------------------
(* C24 *)

\* C24: every onSubmit call of the rating modal carries a rating in 1..5
\* and is made while no other call of the modal is in flight, and when a
\* call settles, resolved or rejected, isSubmitting is false.
C24_OneRatedCallAtATime ==
  [][/\ (ratingModal'.calls # ratingModal.calls)
          => (ratingModal.rating \in 1..5 /\ ratingModal.inFlight = 0)
     /\ ratingModal'.inFlight <= 1
     /\ (ratingModal'.inFlight < ratingModal.inFlight)
          => ~ratingModal'.isSubmitting]_vars

\* two submits have been made and have settled, the last one rejected with
\* its stars kept
C24_TwoSubmitsSettled ==
  /\ ratingModal.calls = 2
  /\ ratingModal.inFlight = 0
  /\ ~ratingModal.isSubmitting
  /\ ratingModal.rating = 5

\* C25: a room is added to the stored rooms by handleCreateSession only from
\* the open modal of a client whose profile is an admin, and the row added has
\* status waiting, no participants and the creator's id as host_id; when the
\* insert fails, no room is added, the modal is not closed and it shows the
\* error.
C25_CreatedRoomWaitingByAdmin ==
  [][\A c \in Clients :
       /\ (createCall[c].pc = "idle" /\ createCall'[c].pc = "insert")
            => (Role[userOf[c]] = "admin" /\ showCreateModal[c])
       /\ (/\ createCall[c].pc = "insert"
           /\ createCall'[c].pc = "idle"
           /\ ~FailsNow(c, "create"))
            => /\ Role[userOf[c]] = "admin"
               /\ Len(dbRooms') = Len(dbRooms) + 1
               /\ SubSeq(dbRooms', 1, Len(dbRooms)) = dbRooms
               /\ dbRooms'[Len(dbRooms')].status = "waiting"
               /\ dbRooms'[Len(dbRooms')].participants = <<>>
               /\ dbRooms'[Len(dbRooms')].host_id = userOf[c]
       /\ FailsNow(c, "create")
            => /\ dbRooms' = dbRooms
               /\ showCreateModal'[c] = showCreateModal[c]
               /\ createModal'.error = ErrorFailed
       /\ (dbRooms' # dbRooms)
            => \E d \in Clients : /\ createCall[d].pc = "insert"
                                  /\ createCall'[d].pc = "idle"
                                  /\ ~FailsNow(d, "create")]_vars

\* the admin's insert has failed: no room is stored, the modal is open and
\* shows the error
C25_FailedCreateShown ==
  /\ fault["c1"].create # NoFailure
  /\ dbRooms = <<>>
  /\ showCreateModal["c1"]
  /\ createModal.error = ErrorFailed

\* C29: whenever no fetchActiveRooms call of a dashboard is in flight and
\* every rooms change event published to it has been handled, its activeRooms
\* is exactly the set of stored rooms whose status is waiting or live.
C29_ListEqualsStoredActive ==
  \A c \in DashClients :
     (/\ view[c] = "dashboard"
      /\ listFetches[c] = <<>>
      /\ roomsChanges[c] = 0)
       => activeRooms[c] = StoredActiveRooms

\* a dashboard at rest lists a room whose stored status is completed
C29_CompletedRoomListed ==
  \E c \in DashClients :
     /\ view[c] = "dashboard"
     /\ listFetches[c] = <<>>
     /\ roomsChanges[c] = 0
     /\ \E i \in activeRooms[c] : dbRooms[i].status = "completed"

\* C30: at any time the stored rooms hold at most one room with status
\* waiting per domain, whatever the order in which the steps of the clients'
\* handleJoinDomain calls run.
C30_OneWaitingRoomPerDomain ==
  \A d \in JoinDomains : Cardinality(WaitingRooms(d)) <= 1

\* two students who clicked the same domain have each created a waiting
\* room of it and entered their own
C30_TwoWaitingRoomsOfOneDomain ==
  \E i, j \in DOMAIN dbRooms :
     /\ i # j
     /\ dbRooms[i].domain = dbRooms[j].domain
     /\ dbRooms[i].status = "waiting" /\ dbRooms[j].status = "waiting"
     /\ dbRooms[i].host_id # dbRooms[j].host_id
     /\ \A c \in {"c2", "c3"} : view[c] = "room"

\* C26: once no store call of any client is in flight, every update event
\* has been handled and every fetchRoom response delivered, the status and
\* the participants a mounted, loaded room view holds equal the stored ones.
C26_QuietViewEqualsStore ==
  (\A d \in Clients : /\ fetchPc[d] = "idle"
                      /\ joinPc[d] = "idle"
                      /\ queue[d] = <<>>)
    => \A c \in ViewClients :
          Rendered(c) => /\ room[c].status = dbStatus
                         /\ participants[c] = dbParticipants

\* at rest, a rendered view of a live room shows no participants while the
\* stored list has one: the late response of its select replaced the event's
C26_LateResponseShown ==
  /\ \A d \in Clients : fetchPc[d] = "idle" /\ joinPc[d] = "idle" /\ queue[d] = <<>>
  /\ \E c \in ViewClients :
        /\ Rendered(c)
        /\ chan[c] = "joined"
        /\ room[c].status = dbStatus
        /\ participants[c] = <<>>
        /\ dbParticipants # <<>>

============================================================================
